---- MODULE Spec2Model ----
(***************************************************************************)
(* StealthSwap: the batched-intent ledger of StealthBatchHook.sol.         *)
(*                                                                         *)
(* The ledger is modelled as the contract's storage plus the chain's block *)
(* number.  Every external function is one action; a revert rolls the      *)
(* storage back, so a reverting call changes only `last`, the record of    *)
(* the most recent call and its outcome.  `events[w]` is the contract's    *)
(* event log filtered by the indexed windowId topic.                       *)
(***************************************************************************)
EXTENDS Integers, Sequences, FiniteSets, TLC

(***************************************************************************)
(* Bounds of the model.                                                    *)
(***************************************************************************)
MaxSubmits == 2
MaxClockWindowId == 4

(***************************************************************************)
(* Callers and inputs.                                                     *)
(***************************************************************************)
ZeroAddress == "0x0"
Users == {"A", "B"}
\* <<amountIn, minOut, recipient>> of a queueSwapExactIn call: three well-formed
\* inputs, and one for each way of being rejected on the arguments alone.
QueueInputs ==
    { <<100, 0, "R">>, <<100, 50, "R">>, <<300, 0, "R">>,
      <<1, 0, "R">>, <<100, 0, ZeroAddress>>, <<1, 0, ZeroAddress>> }
\* Values the output function may return besides the placeholder's totalIn.
OutSet == {0, 50, 200}
WindowIds == {0, 1}
LastWindowId == CHOOSE w \in WindowIds : \A v \in WindowIds : v <= w
IntentIds == 0 .. 1

(***************************************************************************)
(* Constructor arguments (the immutables of the deployment).               *)
(***************************************************************************)
ConstructorArgs ==
    LET Args(n, d, m, a) ==
            [ startBlock |-> 1, blocksPerWindow |-> n, cancelDelayBlocks |-> d,
              maxIntentsPerWindow |-> m, minAmountIn |-> a, zeroForOneDirection |-> TRUE ]
    IN  { Args(2, 0, 2, 100), Args(2, 1, 1, 100),
          Args(0, 0, 2, 100), Args(2, 0, 0, 100), Args(2, 0, 2, 0) }

VARIABLES
    cfg,              \* the immutables set by the constructor
    blockNumber,      \* block.number
    windows,          \* windows[allowedPoolId][windowId]
    intents,          \* intentsByPoolAndWindow[allowedPoolId][windowId]
    hasQueuedIntent,  \* hasQueuedIntent[allowedPoolId][windowId][user]
    events,           \* emitted events, per indexed windowId, in order
    submits,          \* number of successful queueSwapExactIn calls (bounded)
    last,             \* the most recent call of the current block and its outcome
    dustSwept,        \* windows[allowedPoolId][windowId].dustSwept
    agent,            \* the clearing agent's process: its position and its memory
    backoff           \* one call of withBackoff: its locals and what it did so far

ledger == <<cfg, windows, intents, hasQueuedIntent, events, submits, dustSwept>>
vars == <<cfg, blockNumber, windows, intents, hasQueuedIntent, events, submits, last,
          dustSwept, agent, backoff>>

(***************************************************************************)
(* constructor: reverts on a zero window size, zero max intents or zero    *)
(* minimum amount.                                                         *)
(***************************************************************************)
\* Variant: a zero maximum of intents per window is not rejected.
constructorErrorNoMaxIntentsCheck(args) ==
    IF args.blocksPerWindow = 0 THEN <<"BlocksPerWindowZero">>
    ELSE IF args.minAmountIn = 0 THEN <<"MinAmountZero">>
    ELSE <<>>

constructorError(args) ==
    IF args.blocksPerWindow = 0 THEN <<"BlocksPerWindowZero">>
    ELSE IF args.maxIntentsPerWindow = 0 THEN <<"MaxIntentsZero">>
    ELSE IF args.minAmountIn = 0 THEN <<"MinAmountZero">>
    ELSE <<>>

WindowState0 == [totalIn |-> 0, totalOut |-> 0, intentCount |-> 0, cleared |-> FALSE]

NoCall == [op |-> "none", sender |-> ZeroAddress, args |-> <<>>, err |-> <<>>, ret |-> <<>>]

\* The agent's environment: EXECUTOR_MAX_WINDOWS_PER_TICK and
\* EXECUTOR_BOOTSTRAP_BLOCK_SPAN, at their defaults and at their smallest values.
ExecutorConfigs ==
    { [EXECUTOR_MAX_WINDOWS_PER_TICK |-> 16, EXECUTOR_BOOTSTRAP_BLOCK_SPAN |-> 5000],
      [EXECUTOR_MAX_WINDOWS_PER_TICK |-> 1, EXECUTOR_BOOTSTRAP_BLOCK_SPAN |-> 1] }

\* The clearing agent's process before it is started: it holds nothing.  pc is
\* its position; `delivered` is how far the IntentQueued subscription has read
\* each window's log; `mempool` are the windows whose clear transaction it sent
\* and the chain has not executed yet; `log` is the tag of the last line that
\* processPendingWindows wrote in the current tick; `prior` remembers, while the
\* process is stopped, the pendingWindows it had when it was stopped.
AgentOff ==
    [pc |-> "off", config |-> CHOOSE c \in ExecutorConfigs : c.EXECUTOR_MAX_WINDOWS_PER_TICK = 16,
     pendingWindows |-> {}, lastSeenWindow |-> -1,
     intentsSeenByWindow |-> [w \in WindowIds |-> 0], delivered |-> [w \in WindowIds |-> 0],
     currentWindowId |-> -1, windowsToCheck |-> <<>>, mempool |-> {}, log |-> "none",
     prior |-> {}]

\* The retry settings of the environment: the executor's defaults, the read
\* API's defaults (API_RPC_*), a maximum that the doubling reaches, no retry
\* at all, and a base delay above the maximum delay (the schema accepts every
\* positive base and maximum).
BackoffConfigs ==
    { [EXECUTOR_BACKOFF_BASE_MS |-> 1000, EXECUTOR_BACKOFF_MAX_MS |-> 16000, EXECUTOR_MAX_RETRIES |-> 3],
      [EXECUTOR_BACKOFF_BASE_MS |-> 300, EXECUTOR_BACKOFF_MAX_MS |-> 4000, EXECUTOR_MAX_RETRIES |-> 2],
      [EXECUTOR_BACKOFF_BASE_MS |-> 1000, EXECUTOR_BACKOFF_MAX_MS |-> 3000, EXECUTOR_MAX_RETRIES |-> 3],
      [EXECUTOR_BACKOFF_BASE_MS |-> 1, EXECUTOR_BACKOFF_MAX_MS |-> 1, EXECUTOR_MAX_RETRIES |-> 0],
      [EXECUTOR_BACKOFF_BASE_MS |-> 1000, EXECUTOR_BACKOFF_MAX_MS |-> 500, EXECUTOR_MAX_RETRIES |-> 1] }

\* No call of withBackoff is running.  While one runs, pc is its position
\* ("call": about to invoke fn, "sleep": inside sleep(delayMs), "returned",
\* "thrown"), label and windowId say which operation it wraps, attempt and
\* delayMs are its locals, `calls` counts the invocations of fn, `slept` lists
\* the delays passed to sleep, `error` is the error caught last, `thrown` the
\* error it threw and `result` the value it returned.
BackoffIdle ==
    [pc |-> "idle", label |-> "none", windowId |-> -1,
     config |-> CHOOSE c \in BackoffConfigs : c.EXECUTOR_MAX_RETRIES = 0,
     attempt |-> 0, delayMs |-> 0, calls |-> 0, slept |-> <<>>,
     error |-> <<>>, thrown |-> <<>>, result |-> <<>>]

\* The state right after a deployment with constructor arguments `args`.
Deployed(args) ==
    /\ cfg = args
    /\ blockNumber = 0
    /\ windows = [w \in WindowIds |-> WindowState0]
    /\ intents = [w \in WindowIds |-> <<>>]
    /\ hasQueuedIntent = [w \in WindowIds |-> [u \in Users |-> FALSE]]
    /\ events = [w \in WindowIds |-> <<>>]
    /\ submits = 0
    /\ last = NoCall
    /\ dustSwept = [w \in WindowIds |-> FALSE]
    /\ agent = AgentOff
    /\ backoff = BackoffIdle

Init == \E args \in {a \in ConstructorArgs : constructorError(a) = <<>>} : Deployed(args)

(***************************************************************************)
(* Window clock of the hook.                                               *)
(***************************************************************************)
\* Variant: the end of the window taken as its last block, not the block after it.
getWindowBoundsInclusiveEnd(windowId) ==
    LET windowStart == cfg.startBlock + windowId * cfg.blocksPerWindow
    IN  <<windowStart, windowStart + cfg.blocksPerWindow - 1>>

getWindowBounds(windowId) ==
    LET windowStart == cfg.startBlock + windowId * cfg.blocksPerWindow
    IN  <<windowStart, windowStart + cfg.blocksPerWindow>>

\* getCurrentWindowId reverts with WindowNotStarted before startBlock ...
windowNotStarted == blockNumber < cfg.startBlock

\* ... and otherwise returns the id of the window of block.number.
getCurrentWindowId == (blockNumber - cfg.startBlock) \div cfg.blocksPerWindow

(***************************************************************************)
(* Window clock of StealthBatchWindow, the library form of the same clock:  *)
(* getWindowId(blockNumber) reverts with getWindowIdError before startBlock *)
(* and returns getWindowId otherwise.                                       *)
(***************************************************************************)
getWindowIdError(number) ==
    IF number < cfg.startBlock THEN <<"WindowNotStarted", number, cfg.startBlock>> ELSE <<>>

\* Variant: the window id counted from block 0 instead of from startBlock.
getWindowIdNoStartOffset(number) == number \div cfg.blocksPerWindow

\* Variant: the window id rounded up instead of down.
getWindowIdCeil(number) ==
    (number - cfg.startBlock + cfg.blocksPerWindow - 1) \div cfg.blocksPerWindow

getWindowId(number) == (number - cfg.startBlock) \div cfg.blocksPerWindow

getWindowStart(windowId) == cfg.startBlock + windowId * cfg.blocksPerWindow

getWindowEnd(windowId) == getWindowStart(windowId) + cfg.blocksPerWindow

(***************************************************************************)
(* The chain produces a block.  The model follows the chain until every    *)
(* modelled window has ended and its cancellations have become available;  *)
(* windows after the last modelled one take no submissions.                *)
(***************************************************************************)
LastWindowEnd == cfg.startBlock + (LastWindowId + 1) * cfg.blocksPerWindow

Mine ==
    /\ blockNumber < LastWindowEnd + cfg.cancelDelayBlocks
    /\ blockNumber' = blockNumber + 1
    /\ last' = NoCall
    /\ UNCHANGED <<ledger, agent, backoff>>

(***************************************************************************)
(* Calls.  A call that reverts rolls storage and logs back.                *)
(***************************************************************************)
Call(op, sender, args, err, ret) ==
    [op |-> op, sender |-> sender, args |-> args, err |-> err, ret |-> ret]

Revert(op, sender, args, err) ==
    /\ last' = Call(op, sender, args, err, <<>>)
    /\ UNCHANGED <<ledger, blockNumber>>

Return(op, sender, args, ret) == last' = Call(op, sender, args, <<>>, ret)

(***************************************************************************)
(* Events, as emitted.                                                     *)
(***************************************************************************)
IntentQueued(windowId, intentId, user, amountIn, zeroForOne) ==
    [type |-> "IntentQueued", windowId |-> windowId, intentId |-> intentId,
     user |-> user, amount |-> amountIn, zeroForOne |-> zeroForOne]

WindowCleared(windowId, totalIn, totalOut) ==
    [type |-> "WindowCleared", windowId |-> windowId, totalIn |-> totalIn, totalOut |-> totalOut]

Claimed(windowId, intentId, user, amountOut) ==
    [type |-> "Claimed", windowId |-> windowId, intentId |-> intentId,
     user |-> user, amount |-> amountOut]

IntentCancelled(windowId, intentId, user, amountIn) ==
    [type |-> "IntentCancelled", windowId |-> windowId, intentId |-> intentId,
     user |-> user, amount |-> amountIn]

emit(windowId, e) == events' = [events EXCEPT ![windowId] = Append(@, e)]

(***************************************************************************)
(* queueSwapExactIn(amountIn, minOut, recipient) called by `sender`.       *)
(* queueError is the revert the call ends with, <<>> when it goes through. *)
(***************************************************************************)
SwapIntent(user, recipient, amountIn, minOut, windowId, zeroForOne, claimed) ==
    [user |-> user, recipient |-> recipient, amountIn |-> amountIn, minOut |-> minOut,
     windowId |-> windowId, zeroForOne |-> zeroForOne, claimed |-> claimed]

\* Variant: the per-owner-per-window flag is not checked.
queueErrorNoDuplicateCheck(sender, amountIn, minOut, recipient) ==
    IF recipient = ZeroAddress THEN <<"RecipientZero">>
    ELSE IF amountIn < cfg.minAmountIn THEN <<"AmountTooSmall">>
    ELSE IF windowNotStarted THEN <<"WindowNotStarted">>
    ELSE IF windows[getCurrentWindowId].intentCount >= cfg.maxIntentsPerWindow
         THEN <<"MaxIntentsReached">>
    ELSE <<>>

\* Variant: an amount equal to the minimum is refused too.
queueErrorAmountNotAboveMinimum(sender, amountIn, minOut, recipient) ==
    IF recipient = ZeroAddress THEN <<"RecipientZero">>
    ELSE IF amountIn <= cfg.minAmountIn THEN <<"AmountTooSmall">>
    ELSE IF windowNotStarted THEN <<"WindowNotStarted">>
    ELSE IF hasQueuedIntent[getCurrentWindowId][sender] THEN <<"AlreadyQueuedInWindow">>
    ELSE IF windows[getCurrentWindowId].intentCount >= cfg.maxIntentsPerWindow
         THEN <<"MaxIntentsReached">>
    ELSE <<>>

\* Variant: the window's intentCount is not checked against the maximum.
queueErrorNoMaxIntentsCheck(sender, amountIn, minOut, recipient) ==
    IF recipient = ZeroAddress THEN <<"RecipientZero">>
    ELSE IF amountIn < cfg.minAmountIn THEN <<"AmountTooSmall">>
    ELSE IF windowNotStarted THEN <<"WindowNotStarted">>
    ELSE IF hasQueuedIntent[getCurrentWindowId][sender] THEN <<"AlreadyQueuedInWindow">>
    ELSE <<>>

queueError(sender, amountIn, minOut, recipient) ==
    IF recipient = ZeroAddress THEN <<"RecipientZero">>
    ELSE IF amountIn < cfg.minAmountIn THEN <<"AmountTooSmall">>
    ELSE IF windowNotStarted THEN <<"WindowNotStarted">>
    ELSE IF hasQueuedIntent[getCurrentWindowId][sender] THEN <<"AlreadyQueuedInWindow">>
    ELSE IF windows[getCurrentWindowId].intentCount >= cfg.maxIntentsPerWindow
         THEN <<"MaxIntentsReached">>
    ELSE <<>>

\* Variant: the window's totals and the flag are written, the intent is not stored.
queueEffectIntentNotStored(sender, amountIn, minOut, recipient) ==
    LET windowId == getCurrentWindowId
        intentId == Len(intents[windowId])
    IN  /\ windows' = [windows EXCEPT ![windowId].totalIn = @ + amountIn,
                                      ![windowId].intentCount = @ + 1]
        /\ hasQueuedIntent' = [hasQueuedIntent EXCEPT ![windowId][sender] = TRUE]
        /\ emit(windowId, IntentQueued(windowId, intentId, sender, amountIn, cfg.zeroForOneDirection))
        /\ Return("queueSwapExactIn", sender, <<amountIn, minOut, recipient>>, <<windowId, intentId>>)
        /\ UNCHANGED intents

\* Variant: the returned index counts from one.
queueEffectIndexFromOne(sender, amountIn, minOut, recipient) ==
    LET windowId == getCurrentWindowId
        intentId == Len(intents[windowId]) + 1
    IN  /\ intents' = [intents EXCEPT ![windowId] =
               Append(@, SwapIntent(sender, recipient, amountIn, minOut, windowId,
                                    cfg.zeroForOneDirection, FALSE))]
        /\ windows' = [windows EXCEPT ![windowId].totalIn = @ + amountIn,
                                      ![windowId].intentCount = @ + 1]
        /\ hasQueuedIntent' = [hasQueuedIntent EXCEPT ![windowId][sender] = TRUE]
        /\ emit(windowId, IntentQueued(windowId, intentId, sender, amountIn, cfg.zeroForOneDirection))
        /\ Return("queueSwapExactIn", sender, <<amountIn, minOut, recipient>>, <<windowId, intentId>>)

queueEffect(sender, amountIn, minOut, recipient) ==
    LET windowId == getCurrentWindowId
        intentId == Len(intents[windowId])
    IN  /\ intents' = [intents EXCEPT ![windowId] =
               Append(@, SwapIntent(sender, recipient, amountIn, minOut, windowId,
                                    cfg.zeroForOneDirection, FALSE))]
        /\ windows' = [windows EXCEPT ![windowId].totalIn = @ + amountIn,
                                      ![windowId].intentCount = @ + 1]
        /\ hasQueuedIntent' = [hasQueuedIntent EXCEPT ![windowId][sender] = TRUE]
        /\ emit(windowId, IntentQueued(windowId, intentId, sender, amountIn, cfg.zeroForOneDirection))
        /\ Return("queueSwapExactIn", sender, <<amountIn, minOut, recipient>>, <<windowId, intentId>>)

queueSwapExactIn(sender, amountIn, minOut, recipient) ==
    LET err == queueError(sender, amountIn, minOut, recipient) IN
    IF err # <<>>
    THEN Revert("queueSwapExactIn", sender, <<amountIn, minOut, recipient>>, err)
    ELSE /\ submits < MaxSubmits
         /\ submits' = submits + 1
         /\ queueEffect(sender, amountIn, minOut, recipient)
         /\ UNCHANGED <<cfg, blockNumber, dustSwept>>

(***************************************************************************)
(* _computeWindowTotalOut: the placeholder returns totalIn; the test       *)
(* harness overrides it to return whatever setMockWindowTotalOut stored    *)
(* for the window.  The values it can return for a window:                 *)
(***************************************************************************)
computeWindowTotalOut(windowId, totalIn) == {totalIn} \cup OutSet

(***************************************************************************)
(* clear(windowId), permissionless.                                        *)
(***************************************************************************)
\* Variant: the cleared flag is not checked.
clearErrorNoClearedCheck(windowId) ==
    LET window == windows[windowId]
        windowEndExclusive == getWindowBounds(windowId)[2]
    IN
    IF window.intentCount = 0 THEN <<"UnknownWindow">>
    ELSE IF blockNumber < windowEndExclusive
         THEN <<"WindowNotEnded", blockNumber, windowEndExclusive>>
    ELSE <<>>

\* Variant: a window without intents is not refused.
clearErrorNoUnknownWindowCheck(windowId) ==
    LET window == windows[windowId]
        windowEndExclusive == getWindowBounds(windowId)[2]
    IN
    IF window.cleared THEN <<"WindowAlreadyCleared">>
    ELSE IF blockNumber < windowEndExclusive
         THEN <<"WindowNotEnded", blockNumber, windowEndExclusive>>
    ELSE <<>>

clearError(windowId) ==
    LET window == windows[windowId]
        windowEndExclusive == getWindowBounds(windowId)[2]
    IN
    IF window.intentCount = 0 THEN <<"UnknownWindow">>
    ELSE IF window.cleared THEN <<"WindowAlreadyCleared">>
    ELSE IF blockNumber < windowEndExclusive
         THEN <<"WindowNotEnded", blockNumber, windowEndExclusive>>
    ELSE <<>>

\* Variant: the window's cleared flag is never set.
clearEffectFlagNotSet(sender, windowId) ==
    \E totalOut \in computeWindowTotalOut(windowId, windows[windowId].totalIn) :
        /\ windows' = [windows EXCEPT ![windowId].totalOut = totalOut]
        /\ emit(windowId, WindowCleared(windowId, windows[windowId].totalIn, totalOut))
        /\ Return("clear", sender, <<windowId>>, <<>>)
        /\ UNCHANGED <<intents, hasQueuedIntent>>

clearEffect(sender, windowId) ==
    \E totalOut \in computeWindowTotalOut(windowId, windows[windowId].totalIn) :
        /\ windows' = [windows EXCEPT ![windowId].totalOut = totalOut,
                                      ![windowId].cleared = TRUE]
        /\ emit(windowId, WindowCleared(windowId, windows[windowId].totalIn, totalOut))
        /\ Return("clear", sender, <<windowId>>, <<>>)
        /\ UNCHANGED <<intents, hasQueuedIntent>>

\* Variant: clear returns quietly on a cleared window instead of reverting.
clearReturnsOnCleared(sender, windowId) ==
    LET err == clearError(windowId) IN
    IF err = <<"WindowAlreadyCleared">>
    THEN Return("clear", sender, <<windowId>>, <<>>) /\ UNCHANGED <<ledger, blockNumber>>
    ELSE IF err # <<>>
    THEN Revert("clear", sender, <<windowId>>, err)
    ELSE /\ clearEffect(sender, windowId)
         /\ UNCHANGED <<cfg, blockNumber, submits, dustSwept>>

clear(sender, windowId) ==
    LET err == clearError(windowId) IN
    IF err # <<>>
    THEN Revert("clear", sender, <<windowId>>, err)
    ELSE /\ clearEffect(sender, windowId)
         /\ UNCHANGED <<cfg, blockNumber, submits, dustSwept>>

(***************************************************************************)
(* claim(windowId, intentId) called by `sender`.                           *)
(***************************************************************************)
\* Variant: the share rounded up instead of down.
claimAmountOutCeil(intent, window) ==
    (intent.amountIn * window.totalOut + window.totalIn - 1) \div window.totalIn

\* Variant: the division done before the multiplication.
claimAmountOutDivideFirst(intent, window) ==
    (intent.amountIn \div window.totalIn) * window.totalOut

\* amountOut = (uint256(intent.amountIn) * window.totalOut) / window.totalIn
claimAmountOut(intent, window) == (intent.amountIn * window.totalOut) \div window.totalIn

\* Variant: a share equal to minOut is refused too.
minOutNotMetOrEqual(amountOut, minOut) == amountOut <= minOut

\* if (amountOut < intent.minOut) revert MinOutNotMet(amountOut, intent.minOut)
minOutNotMet(amountOut, minOut) == amountOut < minOut

\* Variant: the claimed flag is checked before the caller is.
claimErrorClaimedBeforeOwner(sender, windowId, intentId) ==
    LET window == windows[windowId] IN
    IF ~window.cleared THEN <<"WindowNotCleared">>
    ELSE IF intentId >= Len(intents[windowId]) THEN <<"InvalidIntentId">>
    ELSE LET intent == intents[windowId][intentId + 1] IN
    IF intent.claimed THEN <<"IntentAlreadyClaimed">>
    ELSE IF intent.user # sender THEN <<"UnauthorizedClaim">>
    ELSE IF window.totalIn = 0 THEN <<"Panic", 18>>
    ELSE LET amountOut == claimAmountOut(intent, window) IN
    IF minOutNotMet(amountOut, intent.minOut) THEN <<"MinOutNotMet", amountOut, intent.minOut>>
    ELSE <<>>

\* Variant: minOut is compared with the window's totalOut, not with the share.
claimErrorMinOutAgainstTotalOut(sender, windowId, intentId) ==
    LET window == windows[windowId] IN
    IF ~window.cleared THEN <<"WindowNotCleared">>
    ELSE IF intentId >= Len(intents[windowId]) THEN <<"InvalidIntentId">>
    ELSE LET intent == intents[windowId][intentId + 1] IN
    IF intent.user # sender THEN <<"UnauthorizedClaim">>
    ELSE IF intent.claimed THEN <<"IntentAlreadyClaimed">>
    ELSE IF window.totalIn = 0 THEN <<"Panic", 18>>
    ELSE LET amountOut == claimAmountOut(intent, window) IN
    IF minOutNotMet(window.totalOut, intent.minOut)
    THEN <<"MinOutNotMet", amountOut, intent.minOut>>
    ELSE <<>>

claimError(sender, windowId, intentId) ==
    LET window == windows[windowId] IN
    IF ~window.cleared THEN <<"WindowNotCleared">>
    ELSE IF intentId >= Len(intents[windowId]) THEN <<"InvalidIntentId">>
    ELSE LET intent == intents[windowId][intentId + 1] IN
    IF intent.user # sender THEN <<"UnauthorizedClaim">>
    ELSE IF intent.claimed THEN <<"IntentAlreadyClaimed">>
    ELSE IF window.totalIn = 0 THEN <<"Panic", 18>>
    ELSE LET amountOut == claimAmountOut(intent, window) IN
    IF minOutNotMet(amountOut, intent.minOut) THEN <<"MinOutNotMet", amountOut, intent.minOut>>
    ELSE <<>>

claimEffect(sender, windowId, intentId) ==
    LET amountOut == claimAmountOut(intents[windowId][intentId + 1], windows[windowId])
    IN  /\ intents' = [intents EXCEPT ![windowId][intentId + 1].claimed = TRUE]
        /\ emit(windowId, Claimed(windowId, intentId, sender, amountOut))
        /\ Return("claim", sender, <<windowId, intentId>>, <<amountOut>>)
        /\ UNCHANGED <<windows, hasQueuedIntent>>

claim(sender, windowId, intentId) ==
    LET err == claimError(sender, windowId, intentId) IN
    IF err # <<>>
    THEN Revert("claim", sender, <<windowId, intentId>>, err)
    ELSE /\ claimEffect(sender, windowId, intentId)
         /\ UNCHANGED <<cfg, blockNumber, submits, dustSwept>>

(***************************************************************************)
(* cancelUncleared(windowId, intentId) called by `sender`.                 *)
(***************************************************************************)
\* Variant: the claimed flag is not checked.
cancelErrorNoClaimedCheck(sender, windowId, intentId) ==
    LET window == windows[windowId]
        windowEndExclusive == getWindowBounds(windowId)[2]
        cancelAvailableBlock == windowEndExclusive + cfg.cancelDelayBlocks
    IN
    IF window.intentCount = 0 THEN <<"UnknownWindow">>
    ELSE IF window.cleared THEN <<"WindowAlreadyCleared">>
    ELSE IF intentId >= Len(intents[windowId]) THEN <<"InvalidIntentId">>
    ELSE IF blockNumber < cancelAvailableBlock
         THEN <<"CancelDelayNotElapsed", blockNumber, cancelAvailableBlock>>
    ELSE LET intent == intents[windowId][intentId + 1] IN
    IF intent.user # sender THEN <<"UnauthorizedClaim">>
    ELSE <<>>

\* Variant: the cancellation becomes available one block late.
cancelErrorDelayOffByOne(sender, windowId, intentId) ==
    LET window == windows[windowId]
        windowEndExclusive == getWindowBounds(windowId)[2]
        cancelAvailableBlock == windowEndExclusive + cfg.cancelDelayBlocks
    IN
    IF window.intentCount = 0 THEN <<"UnknownWindow">>
    ELSE IF window.cleared THEN <<"WindowAlreadyCleared">>
    ELSE IF intentId >= Len(intents[windowId]) THEN <<"InvalidIntentId">>
    ELSE IF blockNumber <= cancelAvailableBlock
         THEN <<"CancelDelayNotElapsed", blockNumber, cancelAvailableBlock>>
    ELSE LET intent == intents[windowId][intentId + 1] IN
    IF intent.user # sender THEN <<"UnauthorizedClaim">>
    ELSE IF intent.claimed THEN <<"IntentAlreadyClaimed">>
    ELSE <<>>

\* Variant: a cancellation is accepted in a cleared window.
cancelErrorNoClearedCheck(sender, windowId, intentId) ==
    LET window == windows[windowId]
        windowEndExclusive == getWindowBounds(windowId)[2]
        cancelAvailableBlock == windowEndExclusive + cfg.cancelDelayBlocks
    IN
    IF window.intentCount = 0 THEN <<"UnknownWindow">>
    ELSE IF intentId >= Len(intents[windowId]) THEN <<"InvalidIntentId">>
    ELSE IF blockNumber < cancelAvailableBlock
         THEN <<"CancelDelayNotElapsed", blockNumber, cancelAvailableBlock>>
    ELSE LET intent == intents[windowId][intentId + 1] IN
    IF intent.user # sender THEN <<"UnauthorizedClaim">>
    ELSE IF intent.claimed THEN <<"IntentAlreadyClaimed">>
    ELSE <<>>

\* Variant: a cancellation does not wait for the window's end.
cancelErrorNoDelayCheck(sender, windowId, intentId) ==
    LET window == windows[windowId]
    IN
    IF window.intentCount = 0 THEN <<"UnknownWindow">>
    ELSE IF window.cleared THEN <<"WindowAlreadyCleared">>
    ELSE IF intentId >= Len(intents[windowId]) THEN <<"InvalidIntentId">>
    ELSE LET intent == intents[windowId][intentId + 1] IN
    IF intent.user # sender THEN <<"UnauthorizedClaim">>
    ELSE IF intent.claimed THEN <<"IntentAlreadyClaimed">>
    ELSE <<>>

cancelError(sender, windowId, intentId) ==
    LET window == windows[windowId]
        windowEndExclusive == getWindowBounds(windowId)[2]
        cancelAvailableBlock == windowEndExclusive + cfg.cancelDelayBlocks
    IN
    IF window.intentCount = 0 THEN <<"UnknownWindow">>
    ELSE IF window.cleared THEN <<"WindowAlreadyCleared">>
    ELSE IF intentId >= Len(intents[windowId]) THEN <<"InvalidIntentId">>
    ELSE IF blockNumber < cancelAvailableBlock
         THEN <<"CancelDelayNotElapsed", blockNumber, cancelAvailableBlock>>
    ELSE LET intent == intents[windowId][intentId + 1] IN
    IF intent.user # sender THEN <<"UnauthorizedClaim">>
    ELSE IF intent.claimed THEN <<"IntentAlreadyClaimed">>
    ELSE <<>>

\* Variant: the cancelled amount is left in the window's totalIn.
cancelEffectKeepsTotalIn(sender, windowId, intentId) ==
    LET intent == intents[windowId][intentId + 1]
    IN  /\ intents' = [intents EXCEPT ![windowId][intentId + 1].claimed = TRUE]
        /\ windows' = [windows EXCEPT ![windowId].intentCount = @ - 1]
        /\ emit(windowId, IntentCancelled(windowId, intentId, sender, intent.amountIn))
        /\ Return("cancelUncleared", sender, <<windowId, intentId>>, <<>>)
        /\ UNCHANGED hasQueuedIntent

\* Variant: the cancelled intent stays counted in the window's intentCount.
cancelEffectKeepsIntentCount(sender, windowId, intentId) ==
    LET intent == intents[windowId][intentId + 1]
    IN  /\ intents' = [intents EXCEPT ![windowId][intentId + 1].claimed = TRUE]
        /\ windows' = [windows EXCEPT ![windowId].totalIn = @ - intent.amountIn]
        /\ emit(windowId, IntentCancelled(windowId, intentId, sender, intent.amountIn))
        /\ Return("cancelUncleared", sender, <<windowId, intentId>>, <<>>)
        /\ UNCHANGED hasQueuedIntent

\* Variant: a cancellation lowers totalIn by the minimum amount, not by the
\* intent's amount.
cancelEffectSubtractsMinimum(sender, windowId, intentId) ==
    LET intent == intents[windowId][intentId + 1]
    IN  /\ intents' = [intents EXCEPT ![windowId][intentId + 1].claimed = TRUE]
        /\ windows' = [windows EXCEPT ![windowId].totalIn = @ - cfg.minAmountIn,
                                      ![windowId].intentCount = @ - 1]
        /\ emit(windowId, IntentCancelled(windowId, intentId, sender, intent.amountIn))
        /\ Return("cancelUncleared", sender, <<windowId, intentId>>, <<>>)
        /\ UNCHANGED hasQueuedIntent

cancelEffect(sender, windowId, intentId) ==
    LET intent == intents[windowId][intentId + 1]
    IN  /\ intents' = [intents EXCEPT ![windowId][intentId + 1].claimed = TRUE]
        /\ windows' = [windows EXCEPT ![windowId].totalIn = @ - intent.amountIn,
                                      ![windowId].intentCount = @ - 1]
        /\ emit(windowId, IntentCancelled(windowId, intentId, sender, intent.amountIn))
        /\ Return("cancelUncleared", sender, <<windowId, intentId>>, <<>>)
        /\ UNCHANGED hasQueuedIntent

cancelUncleared(sender, windowId, intentId) ==
    LET err == cancelError(sender, windowId, intentId) IN
    IF err # <<>>
    THEN Revert("cancelUncleared", sender, <<windowId, intentId>>, err)
    ELSE /\ cancelEffect(sender, windowId, intentId)
         /\ UNCHANGED <<cfg, blockNumber, submits, dustSwept>>

(***************************************************************************)
(* The ledger: any caller may make any call at any block.  A reverted call *)
(* leaves the storage as it was, so the calls that could follow it are the *)
(* calls that could have been made instead of it: the model does not       *)
(* explore further calls from the state that only records the revert, it   *)
(* goes on from there with the next block.                                 *)
(***************************************************************************)
Reverted == last.err # <<>>

Queue == /\ ~Reverted
         /\ blockNumber < LastWindowEnd
         /\ \E sender \in Users, in \in QueueInputs :
                queueSwapExactIn(sender, in[1], in[2], in[3])
         /\ UNCHANGED <<agent, backoff>>

Clear == /\ ~Reverted
         /\ \E sender \in Users, windowId \in WindowIds : clear(sender, windowId)
         /\ UNCHANGED <<agent, backoff>>

Claim == /\ ~Reverted
         /\ \E sender \in Users, windowId \in WindowIds, intentId \in IntentIds :
                claim(sender, windowId, intentId)
         /\ UNCHANGED <<agent, backoff>>

Cancel == /\ ~Reverted
          /\ \E sender \in Users, windowId \in WindowIds, intentId \in IntentIds :
                cancelUncleared(sender, windowId, intentId)
          /\ UNCHANGED <<agent, backoff>>

Next == Mine \/ Queue \/ Clear \/ Claim \/ Cancel

Spec == Init /\ [][Next]_vars

(***************************************************************************)
(* The clearing agent's own window arithmetic.  It works on the startBlock *)
(* and blocksPerWindow it read from the hook; null is returned before      *)
(* startBlock.                                                             *)
(***************************************************************************)
null == -1

getWindowIdFromBlock(number, startBlock, blocksPerWindow) ==
    IF number < startBlock THEN null ELSE (number - startBlock) \div blocksPerWindow

agentGetWindowStart(windowId, startBlock, blocksPerWindow) ==
    startBlock + windowId * blocksPerWindow

getWindowEndExclusive(windowId, startBlock, blocksPerWindow) ==
    agentGetWindowStart(windowId, startBlock, blocksPerWindow) + blocksPerWindow

(***************************************************************************)
(* The window clock on its own, as the window tests drive it: a harness is *)
(* deployed with a start block and a window size, the chain is rolled to a *)
(* block, and the views are called.                                        *)
(***************************************************************************)
ClockWindowIds == 0 .. MaxClockWindowId

ClockConstructorArgs ==
    { [ startBlock |-> s, blocksPerWindow |-> n, cancelDelayBlocks |-> 0,
        maxIntentsPerWindow |-> 1, minAmountIn |-> 1, zeroForOneDirection |-> TRUE ] :
      s \in {0, 3, 100}, n \in {0, 1, 2, 3, 10} }

ClockInit ==
    \E args \in {a \in ClockConstructorArgs : constructorError(a) = <<>>} : Deployed(args)

\* The block numbers looked at: from before startBlock to past the last window.
ClockBlocks ==
    (IF cfg.startBlock > 2 THEN cfg.startBlock - 2 ELSE 0) .. (getWindowEnd(MaxClockWindowId) + 1)

Roll ==
    /\ \E number \in ClockBlocks : blockNumber' = number
    /\ last' = NoCall
    /\ UNCHANGED <<ledger, agent, backoff>>

View(op, args, err, ret) ==
    /\ last' = Call(op, ZeroAddress, args, err, ret)
    /\ UNCHANGED <<ledger, blockNumber, agent, backoff>>

CallGetWindowId ==
    \E number \in ClockBlocks :
        LET err == getWindowIdError(number) IN
        View("getWindowId", <<number>>, err, IF err = <<>> THEN <<getWindowId(number)>> ELSE <<>>)

CallGetCurrentWindowId ==
    IF windowNotStarted
    THEN View("getCurrentWindowId", <<>>, <<"WindowNotStarted">>, <<>>)
    ELSE View("getCurrentWindowId", <<>>, <<>>, <<getCurrentWindowId>>)

CallGetWindowBounds ==
    \E windowId \in ClockWindowIds :
        \/ View("getWindowBounds", <<windowId>>, <<>>, getWindowBounds(windowId))
        \/ View("getWindowStart", <<windowId>>, <<>>, <<getWindowStart(windowId)>>)
        \/ View("getWindowEnd", <<windowId>>, <<>>, <<getWindowEnd(windowId)>>)

\* The agent computes the window of the block number it read.
CallGetWindowIdFromBlock ==
    View("getWindowIdFromBlock", <<blockNumber, cfg.startBlock, cfg.blocksPerWindow>>, <<>>,
         <<getWindowIdFromBlock(blockNumber, cfg.startBlock, cfg.blocksPerWindow)>>)

ClockNext ==
    Roll \/ CallGetWindowId \/ CallGetCurrentWindowId \/ CallGetWindowBounds
         \/ CallGetWindowIdFromBlock

ClockSpec == ClockInit /\ [][ClockNext]_vars

(***************************************************************************)
(* Reading the state and the logs.                                         *)
(***************************************************************************)
EventsOf(windowId, type) == SelectSeq(events[windowId], LAMBDA e : e.type = type)

EventsOfIntent(windowId, type, intentId) ==
    SelectSeq(events[windowId], LAMBDA e : e.type = type /\ e.intentId = intentId)

RECURSIVE SumAmounts(_)
SumAmounts(es) == IF es = <<>> THEN 0 ELSE Head(es).amount + SumAmounts(Tail(es))

\* The sum of the amountOut values paid by the successful claims of a window.
claimedOutSum(windowId) == SumAmounts(EventsOf(windowId, "Claimed"))

\* The step is the call `op` with arguments `args`.
IsCall(op, args) == last'.op = op /\ last'.args = args

Succeeds == last'.err = <<>>

FailsWith(err) == last'.err = err /\ UNCHANGED <<ledger, blockNumber>>

(***************************************************************************)
(* Dust sweep.  The hook of this repository's tests and interface keeps    *)
(* terminalIntentCount, claimedOutSum and dustSwept per window and has     *)
(* sweepDust(windowId, to); they are modelled here from their description: *)
(* terminalIntentCount counts the claimed and the cancelled intents,       *)
(* sweepDust requires cleared, terminalIntentCount == intentCount and      *)
(* dustSwept == false, pays totalOut - claimedOutSum to `to` and sets      *)
(* dustSwept.                                                              *)
(***************************************************************************)
terminalIntentCount(windowId) ==
    Len(EventsOf(windowId, "Claimed")) + Len(EventsOf(windowId, "IntentCancelled"))

\* StealthBatchMath.proRataOutFloor: floor(windowTotalOut * userIn / windowTotalIn),
\* WindowTotalInZero on a zero windowTotalIn.
proRataOutFloorError(windowTotalOut, userIn, windowTotalIn) ==
    IF windowTotalIn = 0 THEN <<"WindowTotalInZero">> ELSE <<>>

proRataOutFloor(windowTotalOut, userIn, windowTotalIn) ==
    (windowTotalOut * userIn) \div windowTotalIn

getSweepableDustError(windowTotalOut, claimed) ==
    IF claimed > windowTotalOut
    THEN <<"ClaimedOutExceedsTotalOut", claimed, windowTotalOut>> ELSE <<>>

getSweepableDust(windowTotalOut, claimed) == windowTotalOut - claimed

sweepError(windowId) ==
    LET window == windows[windowId] IN
    IF ~window.cleared THEN <<"WindowNotCleared">>
    ELSE IF terminalIntentCount(windowId) # window.intentCount THEN <<"IntentsNotTerminal">>
    ELSE IF dustSwept[windowId] THEN <<"DustAlreadySwept">>
    ELSE getSweepableDustError(window.totalOut, claimedOutSum(windowId))

sweepEffect(sender, windowId, to) ==
    LET dust == getSweepableDust(windows[windowId].totalOut, claimedOutSum(windowId))
    IN  /\ dustSwept' = [dustSwept EXCEPT ![windowId] = TRUE]
        /\ Return("sweepDust", sender, <<windowId, to>>, <<dust>>)
        /\ UNCHANGED <<windows, intents, hasQueuedIntent, events>>

sweepDust(sender, windowId, to) ==
    LET err == sweepError(windowId) IN
    IF err # <<>>
    THEN Revert("sweepDust", sender, <<windowId, to>>, err)
    ELSE /\ sweepEffect(sender, windowId, to)
         /\ UNCHANGED <<cfg, blockNumber, submits>>

Sweep == /\ ~Reverted
         /\ \E sender \in Users, windowId \in WindowIds : sweepDust(sender, windowId, "R")
         /\ UNCHANGED <<agent, backoff>>

SweepNext == Mine \/ Queue \/ Clear \/ Claim \/ Cancel \/ Sweep

SweepSpec == Init /\ [][SweepNext]_vars

(***************************************************************************)
(* The clearing agent (runExecutorLoop).  Code between two awaits runs in  *)
(* one step.  Owners' calls that revert change nothing the agent can read, *)
(* so beside the agent only the calls that go through are taken; owners    *)
(* submit in the first block of a window, which makes that block the block *)
(* number of the window's IntentQueued logs.                               *)
(***************************************************************************)
Executor == "E"

QueuedLogs(windowId) == EventsOf(windowId, "IntentQueued")

logBlockNumber(log) == getWindowBounds(log.windowId)[1]

\* hook.getEvents.IntentQueued({}, {fromBlock, toBlock}), per window.
getEventsIntentQueued(windowId, fromBlock, toBlock) ==
    SelectSeq(QueuedLogs(windowId),
              LAMBDA log : fromBlock <= logBlockNumber(log) /\ logBlockNumber(log) <= toBlock)

rememberIntentQueued(windowId, a) ==
    [a EXCEPT !.intentsSeenByWindow[windowId] = @ + 1,
              !.pendingWindows = @ \cup {windowId}]

RECURSIVE sortBigintAsc(_)
sortBigintAsc(S) ==
    IF S = {} THEN <<>>
    ELSE LET least == CHOOSE x \in S : \A y \in S : x <= y
         IN  <<least>> \o sortBigintAsc(S \ {least})

\* Variant: the number of windows per tick is not limited.
sliceAll(seq, n) == seq

slice(seq, n) == SubSeq(seq, 1, IF Len(seq) < n THEN Len(seq) ELSE n)

\* runExecutorLoop up to the tick loop: the reads, the replay of the
\* IntentQueued logs of the last EXECUTOR_BOOTSTRAP_BLOCK_SPAN blocks and the
\* subscription to the later ones.
bootstrap(config, latestBlock) ==
    LET bootstrapFromBlock ==
            IF latestBlock > config.EXECUTOR_BOOTSTRAP_BLOCK_SPAN
            THEN latestBlock - config.EXECUTOR_BOOTSTRAP_BLOCK_SPAN ELSE 0
        seedLogs == [w \in WindowIds |->
                        getEventsIntentQueued(w, bootstrapFromBlock, latestBlock)]
    IN  [agent EXCEPT !.pc = "sleep", !.config = config,
                      !.lastSeenWindow =
                          getWindowIdFromBlock(latestBlock, cfg.startBlock, cfg.blocksPerWindow),
                      !.intentsSeenByWindow = [w \in WindowIds |-> Len(seedLogs[w])],
                      !.pendingWindows = {w \in WindowIds : seedLogs[w] # <<>>},
                      !.delivered = [w \in WindowIds |-> Len(QueuedLogs(w))],
                      !.prior = {}]

AgentStart ==
    /\ agent.pc = "off"
    /\ \E config \in ExecutorConfigs : agent' = bootstrap(config, blockNumber)
    /\ UNCHANGED <<ledger, blockNumber, last, backoff>>

\* SIGINT / SIGTERM: the subscription is dropped and the process exits; what it
\* held in memory is gone, a transaction it sent is not.
AgentStop ==
    /\ agent.pc # "off"
    /\ agent' = [AgentOff EXCEPT !.mempool = agent.mempool, !.prior = agent.pendingWindows]
    /\ UNCHANGED <<ledger, blockNumber, last, backoff>>

\* The subscription's onLogs callback for the next undelivered log of a window.
AgentOnLogs ==
    /\ agent.pc # "off"
    /\ \E w \in WindowIds :
          /\ agent.delivered[w] < Len(QueuedLogs(w))
          /\ agent' = rememberIntentQueued(w, [agent EXCEPT !.delivered[w] = @ + 1])
    /\ UNCHANGED <<ledger, blockNumber, last, backoff>>

\* Variant: the window of the block that was read is checked as well.
tickIncludesCurrentWindow(currentBlock) ==
    LET currentWindow == getWindowIdFromBlock(currentBlock, cfg.startBlock, cfg.blocksPerWindow)
        closed == IF agent.lastSeenWindow # null /\ currentWindow > agent.lastSeenWindow
                  THEN agent.lastSeenWindow .. (currentWindow - 1) ELSE {}
        pendingWindows == agent.pendingWindows \cup closed
        windowsToCheck ==
            slice(sortBigintAsc({w \in pendingWindows : w <= currentWindow}),
                  agent.config.EXECUTOR_MAX_WINDOWS_PER_TICK)
    IN  IF currentWindow = null THEN agent
        ELSE [agent EXCEPT !.pendingWindows = pendingWindows,
                           !.lastSeenWindow =
                               IF @ = null \/ currentWindow > @ THEN currentWindow ELSE @,
                           !.currentWindowId = currentWindow,
                           !.windowsToCheck = windowsToCheck,
                           !.log = "none",
                           !.pc = IF windowsToCheck = <<>> THEN "sleep" ELSE "read"]

\* The start of a tick: the block number is read, the windows that closed
\* since the last tick become pending, and processPendingWindows picks the
\* windows to check.
tick(currentBlock) ==
    LET currentWindow == getWindowIdFromBlock(currentBlock, cfg.startBlock, cfg.blocksPerWindow)
        closed == IF agent.lastSeenWindow # null /\ currentWindow > agent.lastSeenWindow
                  THEN agent.lastSeenWindow .. (currentWindow - 1) ELSE {}
        pendingWindows == agent.pendingWindows \cup closed
        windowsToCheck ==
            slice(sortBigintAsc({w \in pendingWindows : w < currentWindow}),
                  agent.config.EXECUTOR_MAX_WINDOWS_PER_TICK)
    IN  IF currentWindow = null THEN agent
        ELSE [agent EXCEPT !.pendingWindows = pendingWindows,
                           !.lastSeenWindow =
                               IF @ = null \/ currentWindow > @ THEN currentWindow ELSE @,
                           !.currentWindowId = currentWindow,
                           !.windowsToCheck = windowsToCheck,
                           !.log = "none",
                           !.pc = IF windowsToCheck = <<>> THEN "sleep" ELSE "read"]

AgentTick ==
    /\ agent.pc = "sleep"
    /\ agent' = tick(blockNumber)
    /\ UNCHANGED <<ledger, blockNumber, last, backoff>>

\* The loop of processPendingWindows goes on to its next window, or the tick ends.
nextWindow(a) ==
    LET rest == Tail(a.windowsToCheck)
    IN  [a EXCEPT !.windowsToCheck = rest, !.pc = IF rest = <<>> THEN "sleep" ELSE "read"]

\* hook.read.getWindow answered: a cleared or empty window is dropped.
AgentReadWindow(windowId) ==
    /\ agent.pc = "read" /\ windowId = Head(agent.windowsToCheck)
    /\ LET windowState == windows[windowId] IN
       agent' = IF windowState.cleared \/ windowState.intentCount = 0
                THEN nextWindow([agent EXCEPT !.pendingWindows = @ \ {windowId},
                                              !.log = "clear-skip"])
                ELSE [agent EXCEPT !.pc = "write"]
    /\ UNCHANGED <<ledger, blockNumber, last, backoff>>

\* hook.write.clear: the transaction is sent, unless the call is found to
\* revert, which throws.
AgentSendClear(windowId) ==
    /\ agent.pc = "write" /\ windowId = Head(agent.windowsToCheck)
    /\ LET err == clearError(windowId) IN
       IF err # <<>>
       THEN /\ agent' = nextWindow([agent EXCEPT !.log = "clear-error"])
            /\ last' = Call("clear", Executor, <<windowId>>, err, <<>>)
       ELSE /\ agent' = [agent EXCEPT !.pc = "wait", !.mempool = @ \cup {windowId},
                                      !.log = "clear-sent"]
            /\ UNCHANGED last
    /\ UNCHANGED <<ledger, blockNumber, backoff>>

\* The chain executes a clear transaction of the agent.
ExecutorClearMined(windowId) ==
    /\ windowId \in agent.mempool
    /\ clear(Executor, windowId)
    /\ agent' = [agent EXCEPT !.mempool = @ \ {windowId}]
    /\ UNCHANGED backoff

\* Variant: the window is dropped as soon as the transaction is sent.
AgentReceiptBeforeMined(windowId) ==
    /\ agent.pc = "wait" /\ windowId = Head(agent.windowsToCheck)
    /\ agent' = nextWindow([agent EXCEPT !.pendingWindows = @ \ {windowId},
                                         !.mempool = @ \ {windowId},
                                         !.log = "clear-mined"])
    /\ UNCHANGED <<ledger, blockNumber, last, backoff>>

\* waitForTransactionReceipt answered: the window is dropped.
AgentReceipt(windowId) ==
    /\ agent.pc = "wait" /\ windowId = Head(agent.windowsToCheck)
    /\ windowId \notin agent.mempool
    /\ agent' = nextWindow([agent EXCEPT !.pendingWindows = @ \ {windowId},
                                         !.log = "clear-mined"])
    /\ UNCHANGED <<ledger, blockNumber, last, backoff>>

\* Variant: an error ends the tick, the windows left in it are not looked at.
AgentCatchEndsTick ==
    /\ agent.pc \in {"read", "write", "wait"}
    /\ agent' = [agent EXCEPT !.windowsToCheck = <<>>, !.pc = "sleep", !.log = "clear-error"]
    /\ UNCHANGED <<ledger, blockNumber, last, backoff>>

\* The read, the send or the wait failed with its retries used up: the error is
\* caught and logged, the window stays pending.
AgentCatch ==
    /\ agent.pc \in {"read", "write", "wait"}
    /\ agent' = nextWindow([agent EXCEPT !.log = "clear-error"])
    /\ UNCHANGED <<ledger, blockNumber, last, backoff>>

AgentRead == \E w \in WindowIds : AgentReadWindow(w)
AgentWrite == \E w \in WindowIds : AgentSendClear(w)
AgentMined == \E w \in WindowIds : ExecutorClearMined(w)
AgentWait == \E w \in WindowIds : AgentReceipt(w)

OwnerQueues ==
    /\ ~windowNotStarted
    /\ blockNumber < LastWindowEnd
    /\ blockNumber = getWindowBounds(getCurrentWindowId)[1]
    /\ \E sender \in Users :
          /\ queueError(sender, cfg.minAmountIn, 0, "R") = <<>>
          /\ queueSwapExactIn(sender, cfg.minAmountIn, 0, "R")
    /\ UNCHANGED <<agent, backoff>>

OwnerCancels ==
    /\ \E sender \in Users, windowId \in WindowIds, intentId \in IntentIds :
          /\ cancelError(sender, windowId, intentId) = <<>>
          /\ cancelUncleared(sender, windowId, intentId)
    /\ UNCHANGED <<agent, backoff>>

AnyoneClears ==
    /\ \E sender \in Users, windowId \in WindowIds :
          /\ clearError(windowId) = <<>>
          /\ clear(sender, windowId)
    /\ UNCHANGED <<agent, backoff>>

AgentNext ==
    \/ Mine \/ OwnerQueues \/ OwnerCancels \/ AnyoneClears
    \/ AgentStart \/ AgentStop \/ AgentOnLogs \/ AgentTick
    \/ AgentRead \/ AgentWrite \/ AgentMined \/ AgentWait \/ AgentCatch

AgentSpec == Init /\ [][AgentNext]_vars

\* The agent is started once and keeps running; every tick comes, and a
\* read, a send or a wait that is tried again and again succeeds in the end.
AgentRunsNext ==
    \/ Mine \/ OwnerQueues \/ OwnerCancels \/ AnyoneClears
    \/ AgentStart \/ AgentOnLogs \/ AgentTick
    \/ AgentRead \/ AgentWrite \/ AgentMined \/ AgentWait \/ AgentCatch

AgentFairness ==
    /\ WF_vars(Mine)
    /\ WF_vars(AgentStart)
    /\ WF_vars(AgentOnLogs)
    /\ WF_vars(AgentTick)
    /\ \A w \in WindowIds :
          /\ SF_vars(AgentReadWindow(w))
          /\ SF_vars(AgentSendClear(w))
          /\ WF_vars(ExecutorClearMined(w))
          /\ SF_vars(AgentReceipt(w))

FairAgentSpec == Init /\ [][AgentRunsNext]_vars /\ AgentFairness

(***************************************************************************)
(* withBackoff, around one operation of the agent: the read of the block   *)
(* number that starts a tick, and the hook.write.clear of a window that    *)
(* processPendingWindows has read as ended, uncleared and with intents.    *)
(* fn fails with an error of the transport, or it does to the ledger what  *)
(* the ledger's code says; other callers act between the attempts.         *)
(***************************************************************************)
TransientErrors == { <<"HttpRequestError">>, <<"TimeoutError">> }

min(a, b) == IF a < b THEN a ELSE b

\* let attempt = 0; let delayMs = config.EXECUTOR_BACKOFF_BASE_MS;
withBackoffEnter(label, windowId, config) ==
    [BackoffIdle EXCEPT !.pc = "call", !.label = label, !.windowId = windowId,
                        !.config = config, !.attempt = 0,
                        !.delayMs = config.EXECUTOR_BACKOFF_BASE_MS]

\* return await fn(): fn resolved.
withBackoffReturn(b, value) ==
    [b EXCEPT !.calls = @ + 1, !.pc = "returned", !.result = value]

\* Variant: one attempt more than EXECUTOR_MAX_RETRIES allows.
withBackoffCatchOneMoreRetry(b, error) ==
    LET attempt == b.attempt + 1 IN
    IF attempt > b.config.EXECUTOR_MAX_RETRIES + 1
    THEN [b EXCEPT !.calls = @ + 1, !.attempt = attempt,
                   !.error = error, !.pc = "thrown", !.thrown = error]
    ELSE [b EXCEPT !.calls = @ + 1, !.attempt = attempt,
                   !.error = error, !.pc = "sleep", !.slept = Append(@, b.delayMs)]

\* catch (error): fn rejected.  The error is thrown on when the retries are
\* used up; otherwise sleep(delayMs) begins.
withBackoffCatch(b, error) ==
    LET attempt == b.attempt + 1 IN
    IF attempt > b.config.EXECUTOR_MAX_RETRIES
    THEN [b EXCEPT !.calls = @ + 1, !.attempt = attempt,
                   !.error = error, !.pc = "thrown", !.thrown = error]
    ELSE [b EXCEPT !.calls = @ + 1, !.attempt = attempt,
                   !.error = error, !.pc = "sleep", !.slept = Append(@, b.delayMs)]

\* The sleep is over: delayMs = Math.min(delayMs * 2, EXECUTOR_BACKOFF_MAX_MS),
\* and the loop invokes fn again.
withBackoffWake(b) ==
    [b EXCEPT !.delayMs = min(@ * 2, b.config.EXECUTOR_BACKOFF_MAX_MS), !.pc = "call"]

\* The tick loop calls withBackoff("getBlockNumber(loop)", ...).
BackoffGetBlockNumber ==
    /\ backoff.pc = "idle"
    /\ \E config \in BackoffConfigs :
          backoff' = withBackoffEnter("getBlockNumber(loop)", -1, config)
    /\ UNCHANGED <<ledger, blockNumber, last, agent>>

\* processPendingWindows calls withBackoff("write.clear(windowId)", ...) for a
\* window below the current one whose state it read as uncleared with intents.
BackoffWriteClear ==
    /\ backoff.pc = "idle"
    /\ \E config \in BackoffConfigs, windowId \in WindowIds :
          /\ getWindowIdFromBlock(blockNumber, cfg.startBlock, cfg.blocksPerWindow) # null
          /\ windowId < getWindowIdFromBlock(blockNumber, cfg.startBlock, cfg.blocksPerWindow)
          /\ ~windows[windowId].cleared /\ windows[windowId].intentCount # 0
          /\ backoff' = withBackoffEnter("write.clear", windowId, config)
    /\ UNCHANGED <<ledger, blockNumber, last, agent>>

\* fn is rejected by the transport: the node cannot be reached, or is too slow.
BackoffFnFails ==
    /\ backoff.pc = "call"
    /\ \E error \in TransientErrors : backoff' = withBackoffCatch(backoff, error)
    /\ UNCHANGED <<ledger, blockNumber, last, agent>>

\* publicClient.getBlockNumber() answers.
BackoffFnGetBlockNumber ==
    /\ backoff.pc = "call" /\ backoff.label = "getBlockNumber(loop)"
    /\ backoff' = withBackoffReturn(backoff, <<blockNumber>>)
    /\ UNCHANGED <<ledger, blockNumber, last, agent>>

\* hook.write.clear([windowId]) reaches the ledger: a clear that reverts is
\* rejected with the ledger's error, one that goes through is executed.
BackoffFnClear ==
    /\ backoff.pc = "call" /\ backoff.label = "write.clear"
    /\ LET err == clearError(backoff.windowId) IN
       IF err # <<>>
       THEN /\ backoff' = withBackoffCatch(backoff, err)
            /\ last' = Call("clear", Executor, <<backoff.windowId>>, err, <<>>)
            /\ UNCHANGED <<ledger, blockNumber>>
       ELSE /\ clear(Executor, backoff.windowId)
            /\ backoff' = withBackoffReturn(backoff, <<"txHash">>)
    /\ UNCHANGED agent

BackoffWake ==
    /\ backoff.pc = "sleep"
    /\ backoff' = withBackoffWake(backoff)
    /\ UNCHANGED <<ledger, blockNumber, last, agent>>

\* withBackoff has returned or thrown: its caller goes on.
BackoffLeave ==
    /\ backoff.pc \in {"returned", "thrown"}
    /\ backoff' = BackoffIdle
    /\ UNCHANGED <<ledger, blockNumber, last, agent>>

BackoffNext ==
    \/ Mine \/ OwnerQueues \/ OwnerCancels \/ AnyoneClears
    \/ BackoffGetBlockNumber \/ BackoffWriteClear
    \/ BackoffFnFails \/ BackoffFnGetBlockNumber \/ BackoffFnClear
    \/ BackoffWake \/ BackoffLeave

BackoffSpec == Init /\ [][BackoffNext]_vars

(***************************************************************************)
(* C1: in every reachable state and for every window, the amounts paid by  *)
(* the successful claims of the window add up to at most the window's      *)
(* totalOut, whatever the output function returned.                        *)
(***************************************************************************)
C1_ClaimedOutSumAtMostTotalOut ==
    \A w \in WindowIds : claimedOutSum(w) <= windows[w].totalOut

\* Every intent of a two-intent window has claimed and rounding left dust behind.
C1_Witness ==
    \E w \in WindowIds :
        /\ Len(EventsOf(w, "Claimed")) = 2
        /\ claimedOutSum(w) > 0
        /\ claimedOutSum(w) < windows[w].totalOut

(***************************************************************************)
(* C2: once a window is cleared it stays cleared, and no later step        *)
(* changes its totalOut.                                                   *)
(***************************************************************************)
C2_ClearedTotalOutFixed ==
    [][\A w \in WindowIds :
          windows[w].cleared =>
              /\ windows'[w].cleared
              /\ windows'[w].totalOut = windows[w].totalOut]_vars

\* A cleared window whose totalOut differs from what a new evaluation could
\* store, after a claim was paid from it and clear was called on it again.
C2_Witness ==
    \E w \in WindowIds :
        /\ windows[w].cleared
        /\ windows[w].totalOut = 200
        /\ Len(EventsOf(w, "Claimed")) > 0
        /\ last.op = "clear" /\ last.args = <<w>>

(***************************************************************************)
(* C3: clear on a window that is already cleared fails with                *)
(* WindowAlreadyCleared, changes no field of any window or intent and      *)
(* emits no second WindowCleared event.                                    *)
(***************************************************************************)
C3_ClearOnClearedFails ==
    [][\A w \in WindowIds :
          (IsCall("clear", <<w>>) /\ windows[w].cleared) =>
              /\ FailsWith(<<"WindowAlreadyCleared">>)
              /\ Len(EventsOf(w, "WindowCleared"))' = 1]_vars

C3_Witness ==
    /\ last.op = "clear"
    /\ last.err = <<"WindowAlreadyCleared">>
    /\ windows[last.args[1]].cleared

(***************************************************************************)
(* C4: however many callers call clear on an ended, non-empty window, the  *)
(* call made while the window is uncleared succeeds and every other one    *)
(* fails with WindowAlreadyCleared; the window has exactly one             *)
(* WindowCleared event (one evaluation of the output function), which      *)
(* carries the stored totals.                                              *)
(***************************************************************************)
WindowEnd(w) == cfg.startBlock + (w + 1) * cfg.blocksPerWindow

C4_ExactlyOneClearSucceeds ==
    [][\A w \in WindowIds :
          /\ (IsCall("clear", <<w>>) /\ windows[w].intentCount > 0 /\ blockNumber >= WindowEnd(w)) =>
                 IF windows[w].cleared
                 THEN FailsWith(<<"WindowAlreadyCleared">>)
                 ELSE Succeeds /\ windows'[w].cleared /\ ~UNCHANGED events
          /\ Len(EventsOf(w, "WindowCleared"))' = (IF windows'[w].cleared THEN 1 ELSE 0)
          /\ windows'[w].cleared =>
                 LET e == EventsOf(w, "WindowCleared")'[1]
                 IN  e.totalOut = windows'[w].totalOut /\ e.totalIn = windows'[w].totalIn]_vars

\* A second caller lost the race: the window has its one WindowCleared event.
C4_Witness ==
    /\ last.op = "clear" /\ last.sender = "B"
    /\ last.err = <<"WindowAlreadyCleared">>
    /\ Len(EventsOf(last.args[1], "WindowCleared")) = 1
    /\ blockNumber = WindowEnd(last.args[1])

(***************************************************************************)
(* C5: clear on a non-empty, uncleared window fails with                   *)
(* WindowNotEnded(block.number, windowEndExclusive) while block.number is  *)
(* below start + (windowId + 1) * N and succeeds from that block on; no    *)
(* window is cleared while it is still the current window or a later one.  *)
(***************************************************************************)
C5_ClearOnlyAfterWindowEnd ==
    [][\A w \in WindowIds :
          /\ (IsCall("clear", <<w>>) /\ windows[w].intentCount > 0 /\ ~windows[w].cleared) =>
                 IF blockNumber < WindowEnd(w)
                 THEN FailsWith(<<"WindowNotEnded", blockNumber, WindowEnd(w)>>)
                 ELSE Succeeds /\ windows'[w].cleared
          /\ windows'[w].cleared =>
                 /\ blockNumber' >= WindowEnd(w)
                 /\ getCurrentWindowId' > w]_vars

\* clear is refused in the last block of the window.
C5_Witness ==
    /\ last.op = "clear"
    /\ last.err = <<"WindowNotEnded", blockNumber, blockNumber + 1>>
    /\ blockNumber + 1 = WindowEnd(last.args[1])

(***************************************************************************)
(* C6: claim fails with WindowNotCleared if the window is not cleared;     *)
(* otherwise with InvalidIntentId if the index is no stored intent;        *)
(* otherwise with UnauthorizedClaim if the caller is not the intent's      *)
(* owner; otherwise with IntentAlreadyClaimed if the intent is claimed;    *)
(* and every failing claim leaves the ledger as it was.                    *)
(***************************************************************************)
C6_ClaimFailureOrder ==
    [][\A u \in Users, w \in WindowIds, i \in IntentIds :
          (IsCall("claim", <<w, i>>) /\ last'.sender = u) =>
              /\ IF ~windows[w].cleared THEN FailsWith(<<"WindowNotCleared">>)
                 ELSE IF i >= Len(intents[w]) THEN FailsWith(<<"InvalidIntentId">>)
                 ELSE IF intents[w][i + 1].user # u THEN FailsWith(<<"UnauthorizedClaim">>)
                 ELSE IF intents[w][i + 1].claimed THEN FailsWith(<<"IntentAlreadyClaimed">>)
                 ELSE last'.err = <<>> \/ last'.err[1] = "MinOutNotMet"
              /\ ~Succeeds => UNCHANGED <<ledger, blockNumber>>]_vars

\* A caller who is not the owner claims an intent that is already claimed.
C6_Witness ==
    /\ last.op = "claim"
    /\ last.err = <<"UnauthorizedClaim">>
    /\ intents[last.args[1]][last.args[2] + 1].claimed

(***************************************************************************)
(* C7: a claim by the owner of an unclaimed intent of a cleared window     *)
(* whose share floor(totalOut * amountIn / totalIn) is below the intent's  *)
(* minOut fails with MinOutNotMet(share, minOut): the intent stays         *)
(* unclaimed, no Claimed event is emitted and no total changes.  When the  *)
(* share equals minOut the claim succeeds.                                 *)
(***************************************************************************)
Share(w, i) == (windows[w].totalOut * intents[w][i + 1].amountIn) \div windows[w].totalIn

Claimable(u, w, i) ==
    /\ windows[w].cleared
    /\ i < Len(intents[w])
    /\ intents[w][i + 1].user = u
    /\ ~intents[w][i + 1].claimed

C7_MinOutEnforcedAtClaim ==
    [][\A u \in Users, w \in WindowIds, i \in IntentIds :
          (IsCall("claim", <<w, i>>) /\ last'.sender = u /\ Claimable(u, w, i)) =>
              /\ Share(w, i) < intents[w][i + 1].minOut =>
                     /\ FailsWith(<<"MinOutNotMet", Share(w, i), intents[w][i + 1].minOut>>)
                     /\ ~intents'[w][i + 1].claimed
                     /\ claimedOutSum(w)' = claimedOutSum(w)
              /\ Share(w, i) >= intents[w][i + 1].minOut =>
                     Succeeds /\ intents'[w][i + 1].claimed]_vars

\* The share 12 of an intent that asked for at least 50 is refused.
C7_Witness ==
    /\ last.op = "claim"
    /\ last.err = <<"MinOutNotMet", 12, 50>>
    /\ ~intents[last.args[1]][last.args[2] + 1].claimed

(***************************************************************************)
(* C8: a successful claim returns floor(totalOut * amountIn / totalIn) of  *)
(* the totals stored in the window when it is made, which is 0 when        *)
(* totalOut is 0; intents of 100 and 300 in a window with totalOut 200     *)
(* get 50 and 150.                                                         *)
(***************************************************************************)
IsFloorOf(q, num, den) == q * den <= num /\ num < (q + 1) * den

C8_ClaimReturnsFloorShare ==
    [][\A w \in WindowIds, i \in IntentIds :
          (IsCall("claim", <<w, i>>) /\ Succeeds) =>
              LET amountOut == last'.ret[1]
                  amountIn == intents[w][i + 1].amountIn
              IN  /\ IsFloorOf(amountOut, windows[w].totalOut * amountIn, windows[w].totalIn)
                  /\ windows[w].totalOut = 0 => amountOut = 0
                  /\ (windows[w].totalOut = 200 /\ windows[w].totalIn = 400) =>
                         amountOut = (IF amountIn = 100 THEN 50 ELSE 150)
                  /\ Len(events'[w]) = Len(events[w]) + 1
                  /\ events'[w][Len(events'[w])] = Claimed(w, i, last'.sender, amountOut)]_vars

\* The window of 100 and 300 with totalOut 200 has paid 50 and 150.
C8_Witness ==
    \E w \in WindowIds :
        /\ windows[w].totalIn = 400 /\ windows[w].totalOut = 200
        /\ Len(intents[w]) = 2
        /\ \E i, j \in IntentIds :
              /\ intents[w][i + 1].amountIn = 100 /\ intents[w][j + 1].amountIn = 300
              /\ Len(EventsOfIntent(w, "Claimed", i)) = 1
              /\ EventsOfIntent(w, "Claimed", i)[1].amount = 50
              /\ last.op = "claim" /\ last.args = <<w, j>> /\ last.ret = <<150>>

(***************************************************************************)
(* C9: an intent's claimed flag never returns to false and no stored       *)
(* intent is removed; the flag is set only by a successful claim or a      *)
(* successful cancelUncleared of that intent; so every intent has at most  *)
(* one Claimed or IntentCancelled event in all, exactly one once the flag  *)
(* is set.                                                                 *)
(***************************************************************************)
Terminations(w, i) ==
    Len(EventsOfIntent(w, "Claimed", i)) + Len(EventsOfIntent(w, "IntentCancelled", i))

C9_IntentResolvesOnce ==
    [][\A w \in WindowIds :
          /\ Len(intents'[w]) >= Len(intents[w])
          /\ \A i \in IntentIds : i < Len(intents[w]) =>
                /\ intents[w][i + 1].claimed => intents'[w][i + 1].claimed
                /\ (~intents[w][i + 1].claimed /\ intents'[w][i + 1].claimed) =>
                       /\ last'.op \in {"claim", "cancelUncleared"}
                       /\ last'.args = <<w, i>>
                       /\ last'.sender = intents[w][i + 1].user
                       /\ Succeeds
                /\ Terminations(w, i)' = (IF intents'[w][i + 1].claimed THEN 1 ELSE 0)]_vars

\* One intent of a window was cancelled, the other one claimed, and a second
\* cancel of the first was refused.
C9_Witness ==
    \E w \in WindowIds, i, j \in IntentIds :
        /\ Len(EventsOfIntent(w, "IntentCancelled", i)) = 1
        /\ Len(EventsOfIntent(w, "Claimed", j)) = 1
        /\ last.op = "claim" /\ last.args = <<w, i>>
        /\ last.err = <<"IntentAlreadyClaimed">>

(***************************************************************************)
(* C10 as stated: once an owner has an intent in the current window, any   *)
(* further queueSwapExactIn of that owner fails with                       *)
(* AlreadyQueuedInWindow.                                                  *)
(***************************************************************************)
HasQueuedInCurrent(u) == ~windowNotStarted /\ hasQueuedIntent[getCurrentWindowId][u]

C10_AnyFurtherSubmitIsDuplicate ==
    [][\A u \in Users :
          (last'.op = "queueSwapExactIn" /\ last'.sender = u /\ HasQueuedInCurrent(u)) =>
              FailsWith(<<"AlreadyQueuedInWindow">>)]_vars

(***************************************************************************)
(* C10, amended: for every owner and window at most one queueSwapExactIn   *)
(* succeeds, the per-owner-per-window flag stays true once set, and any    *)
(* further queueSwapExactIn of that owner while the window is current      *)
(* fails: with RecipientZero for a zero recipient, else AmountTooSmall for *)
(* an amount below the minimum, and AlreadyQueuedInWindow otherwise.       *)
(***************************************************************************)
C10_OneSubmitPerOwnerPerWindow ==
    [][\A u \in Users :
          /\ \A w \in WindowIds :
                /\ hasQueuedIntent[w][u] => hasQueuedIntent'[w][u]
                /\ Len(SelectSeq(events'[w], LAMBDA e : e.type = "IntentQueued" /\ e.user = u))
                       = (IF hasQueuedIntent'[w][u] THEN 1 ELSE 0)
          /\ (last'.op = "queueSwapExactIn" /\ last'.sender = u /\ HasQueuedInCurrent(u)) =>
                 LET amountIn == last'.args[1]
                     recipient == last'.args[3]
                 IN  IF recipient = ZeroAddress THEN FailsWith(<<"RecipientZero">>)
                     ELSE IF amountIn < cfg.minAmountIn THEN FailsWith(<<"AmountTooSmall">>)
                     ELSE FailsWith(<<"AlreadyQueuedInWindow">>)]_vars

\* The owner's second well-formed submission into the window is refused.
C10_Witness ==
    /\ last.op = "queueSwapExactIn"
    /\ last.err = <<"AlreadyQueuedInWindow">>
    /\ Len(intents[getCurrentWindowId]) = 2

(***************************************************************************)
(* C11: cancelUncleared on a cleared window fails with                     *)
(* WindowAlreadyCleared; no cancelUncleared succeeds while block.number is *)
(* below the window's exclusive end plus cancelDelayBlocks, and when the   *)
(* window is non-empty and uncleared and the index is a stored intent it   *)
(* fails with CancelDelayNotElapsed(block.number, end + delay); with a     *)
(* delay of 0 the owner's cancel of an unresolved intent succeeds in the   *)
(* block equal to the window's exclusive end.                              *)
(***************************************************************************)
CancelAvailable(w) == WindowEnd(w) + cfg.cancelDelayBlocks

C12_TotalInChangesOnlyBySubmitAndCancel ==
    [][\A w \in WindowIds :
          LET before == windows[w].totalIn
              after == windows'[w].totalIn
              isSubmit == /\ last'.op = "queueSwapExactIn" /\ Succeeds
                          /\ last'.ret[1] = w
              isCancel == /\ last'.op = "cancelUncleared" /\ Succeeds
                          /\ last'.args[1] = w
          IN  /\ windows[w].cleared => after = before
              /\ isSubmit => after = before + last'.args[1]
              /\ isCancel => /\ ~windows[w].cleared
                             /\ after = before - intents[w][last'.args[2] + 1].amountIn
              /\ after > before => isSubmit
              /\ after < before => isCancel]_vars

\* Of the 400 queued into a window, 100 were cancelled before it was cleared
\* with the remaining 300.
C12_Witness ==
    \E w \in WindowIds :
        /\ windows[w].cleared /\ windows[w].totalIn = 300
        /\ Len(EventsOf(w, "IntentCancelled")) = 1
        /\ EventsOf(w, "IntentCancelled")[1].amount = 100
        /\ EventsOf(w, "WindowCleared")[1].totalIn = 300

(***************************************************************************)
(* C19: getWindowId reverts with WindowNotStarted for every block number   *)
(* below startBlock, so a queueSwapExactIn made before startBlock fails    *)
(* and changes nothing (with WindowNotStarted when its arguments are in    *)
(* order); the constructor reverts on a window size of 0 and on a maximum  *)
(* of 0 intents per window, so no deployment has either.                   *)
(***************************************************************************)
C19_NotStartedAndConstructorRejects ==
    [][/\ cfg.blocksPerWindow # 0 /\ cfg.maxIntentsPerWindow # 0
       /\ \A a \in ConstructorArgs :
             /\ a.blocksPerWindow = 0 => constructorError(a) = <<"BlocksPerWindowZero">>
             /\ (a.blocksPerWindow # 0 /\ a.maxIntentsPerWindow = 0) =>
                    constructorError(a) = <<"MaxIntentsZero">>
       /\ \A number \in 0 .. LastWindowEnd :
             (getWindowIdError(number) # <<>>) <=> (number < cfg.startBlock)
       /\ (last'.op = "queueSwapExactIn" /\ blockNumber < cfg.startBlock) =>
             /\ ~Succeeds /\ UNCHANGED <<ledger, blockNumber>>
             /\ (last'.args[3] # ZeroAddress /\ last'.args[1] >= cfg.minAmountIn) =>
                    FailsWith(<<"WindowNotStarted">>)]_vars

\* A well-formed submission made in the block before startBlock was refused.
C19_Witness ==
    /\ last.op = "queueSwapExactIn" /\ last.err = <<"WindowNotStarted">>
    /\ blockNumber + 1 = cfg.startBlock
    /\ getWindowIdError(blockNumber) = <<"WindowNotStarted", blockNumber, cfg.startBlock>>

(***************************************************************************)
(* C20 as stated: a queueSwapExactIn with a recipient fails with           *)
(* AmountTooSmall unless its amountIn is strictly greater than             *)
(* minAmountIn (once the window clock has started), in particular when     *)
(* amountIn equals minAmountIn, and changes no state.                      *)
(***************************************************************************)
C20_AmountEqualToMinimumFails ==
    [][(/\ last'.op = "queueSwapExactIn" /\ last'.args[3] # ZeroAddress
        /\ ~(last'.args[1] > cfg.minAmountIn)) =>
           /\ ~Succeeds /\ UNCHANGED <<ledger, blockNumber>>
           /\ ~windowNotStarted => FailsWith(<<"AmountTooSmall">>)]_vars

(***************************************************************************)
(* C20, amended: a queueSwapExactIn with a recipient fails with            *)
(* AmountTooSmall exactly when its amountIn is strictly below minAmountIn, *)
(* and then changes no state; an amountIn equal to minAmountIn is          *)
(* accepted: the call succeeds when the window has started, the caller has *)
(* no intent in it and it is not full.                                     *)
(***************************************************************************)
C20_AmountBelowMinimumFails ==
    [][(last'.op = "queueSwapExactIn" /\ last'.args[3] # ZeroAddress) =>
           LET amountIn == last'.args[1] IN
           /\ amountIn < cfg.minAmountIn => FailsWith(<<"AmountTooSmall">>)
           /\ amountIn >= cfg.minAmountIn => last'.err # <<"AmountTooSmall">>
           /\ ( /\ amountIn = cfg.minAmountIn /\ ~windowNotStarted
                /\ ~hasQueuedIntent[getCurrentWindowId][last'.sender]
                /\ windows[getCurrentWindowId].intentCount < cfg.maxIntentsPerWindow ) =>
                  /\ Succeeds
                  /\ windows'[getCurrentWindowId].totalIn
                         = windows[getCurrentWindowId].totalIn + amountIn]_vars

\* An amount equal to the minimum was queued.
C20_Witness ==
    /\ last.op = "queueSwapExactIn" /\ last.err = <<>>
    /\ last.args[1] = cfg.minAmountIn
    /\ windows[last.ret[1]].totalIn = cfg.minAmountIn

(***************************************************************************)
(* C17: getWindowId is monotonic non-decreasing in the block number from   *)
(* startBlock on, and for every window id k the bounds of k are            *)
(* (start + k*N, start + (k+1)*N), getWindowId of the first is k and       *)
(* getWindowId of the second is k + 1; the hook's clock and the library's  *)
(* agree.                                                                  *)
(***************************************************************************)
C17_WindowIdMonotonicAndBounds ==
    /\ \A c1, c2 \in ClockBlocks :
          (cfg.startBlock <= c1 /\ c1 <= c2) => getWindowId(c1) <= getWindowId(c2)
    /\ \A k \in ClockWindowIds :
          /\ getWindowBounds(k) = << cfg.startBlock + k * cfg.blocksPerWindow,
                                     cfg.startBlock + (k + 1) * cfg.blocksPerWindow >>
          /\ getWindowStart(k) = getWindowBounds(k)[1]
          /\ getWindowEnd(k) = getWindowBounds(k)[2]
          /\ getWindowIdError(getWindowBounds(k)[1]) = <<>>
          /\ getWindowId(getWindowBounds(k)[1]) = k
          /\ getWindowId(getWindowBounds(k)[2]) = k + 1
    /\ (last.op = "getCurrentWindowId" /\ last.err = <<>>) => last.ret = <<getWindowId(blockNumber)>>

\* The window tests' harness (start 100, size 10): block 110, the exclusive end
\* of window 0, is in window 1.
C17_Witness ==
    /\ cfg.startBlock = 100 /\ cfg.blocksPerWindow = 10
    /\ last.op = "getWindowId" /\ last.args = <<110>> /\ last.ret = <<1>>
    /\ getWindowBounds(0)[2] = 110

(***************************************************************************)
(* C18: every block number from startBlock on lies in the range            *)
(* [start, end) of exactly one window id, which is getWindowId of it, and  *)
(* the ranges of two different window ids do not overlap; the agent's      *)
(* window arithmetic returns the same id and the same bounds as the hook   *)
(* for every block number from startBlock on (and null before it, where    *)
(* the hook reverts).                                                      *)
(***************************************************************************)
InWindow(c, k) == getWindowBounds(k)[1] <= c /\ c < getWindowBounds(k)[2]

C18_WindowsPartitionTheBlocks ==
    /\ \A c \in ClockBlocks :
          (cfg.startBlock <= c /\ c < getWindowEnd(MaxClockWindowId)) =>
              {k \in ClockWindowIds : InWindow(c, k)} = {getWindowId(c)}
    /\ \A j, k \in ClockWindowIds :
          j # k => \/ getWindowBounds(j)[2] <= getWindowBounds(k)[1]
                   \/ getWindowBounds(k)[2] <= getWindowBounds(j)[1]
    /\ \A c \in ClockBlocks :
          LET id == getWindowIdFromBlock(c, cfg.startBlock, cfg.blocksPerWindow) IN
          IF c < cfg.startBlock
          THEN id = null /\ getWindowIdError(c) # <<>>
          ELSE /\ id = getWindowId(c)
               /\ id \in ClockWindowIds =>
                     /\ agentGetWindowStart(id, cfg.startBlock, cfg.blocksPerWindow) <= c
                     /\ c < getWindowEndExclusive(id, cfg.startBlock, cfg.blocksPerWindow)
    /\ \A k \in ClockWindowIds :
          /\ agentGetWindowStart(k, cfg.startBlock, cfg.blocksPerWindow) = getWindowBounds(k)[1]
          /\ getWindowEndExclusive(k, cfg.startBlock, cfg.blocksPerWindow) = getWindowBounds(k)[2]

\* In the last block of the last window the agent computes the hook's window id.
C18_Witness ==
    /\ cfg.blocksPerWindow = 10
    /\ blockNumber = getWindowBounds(MaxClockWindowId)[2] - 1
    /\ last.op = "getWindowIdFromBlock"
    /\ last.ret = <<getCurrentWindowId>>
    /\ last.ret = <<MaxClockWindowId>>

(***************************************************************************)
(* C13: sweepDust succeeds only on a cleared window whose dust has not     *)
(* been swept and whose terminalIntentCount equals its intentCount; it     *)
(* succeeds at most once per window, and never while an intent of the      *)
(* window is neither cancelled nor claimed.                                *)
(***************************************************************************)
C13_SweepOnlyWhenAllTerminal ==
    [][\A w \in WindowIds :
          /\ (last'.op = "sweepDust" /\ last'.args[1] = w /\ Succeeds) =>
                /\ windows[w].cleared
                /\ ~dustSwept[w] /\ dustSwept'[w]
                /\ terminalIntentCount(w) = windows[w].intentCount
                /\ \A i \in IntentIds : i < Len(intents[w]) => intents[w][i + 1].claimed
          /\ dustSwept[w] => dustSwept'[w]
          /\ (dustSwept'[w] /\ ~dustSwept[w]) =>
                (last'.op = "sweepDust" /\ last'.args[1] = w /\ Succeeds)]_vars

(***************************************************************************)
(* C14: in every reachable state and for every window,                     *)
(* terminalIntentCount is at most intentCount.                             *)
(***************************************************************************)
C14_TerminalAtMostIntentCount ==
    \A w \in WindowIds : terminalIntentCount(w) <= windows[w].intentCount

(***************************************************************************)
(* C16 as stated: when the agent is started again, every window that was   *)
(* pending when it was stopped and that has ended, holds an intent and is  *)
(* not cleared is in the pending set the startup rebuilds.                 *)
(***************************************************************************)
Attemptable(windowId) ==
    /\ ~windowNotStarted
    /\ blockNumber >= getWindowBounds(windowId)[2]
    /\ windows[windowId].intentCount > 0
    /\ ~windows[windowId].cleared

C16_RestartKeepsPendingWindows ==
    [][(agent.pc = "off" /\ agent'.pc # "off")
          => \A w \in agent.prior : Attemptable(w) => w \in agent'.pendingWindows]_vars

(***************************************************************************)
(* C15 as stated: while the agent runs, every window that has ended, holds *)
(* an intent and is not cleared leads to the agent invoking clear on it    *)
(* (or to the window being cleared or emptied by someone else first).      *)
(***************************************************************************)
ClearInvoked(windowId) ==
    \/ windowId \in agent.mempool
    \/ last.op = "clear" /\ last.sender = Executor /\ last.args = <<windowId>>

C15_EndedWindowsAreAttempted ==
    \A w \in WindowIds :
        (agent.pc # "off" /\ Attemptable(w)) ~> (~Attemptable(w) \/ ClearInvoked(w))

(***************************************************************************)
(* C21: a call either goes through or fails with one of the declared       *)
(* errors and leaves the ledger as it was; the ledger changes in no other  *)
(* step; and no state shows half of an operation: the totalIn of a window  *)
(* is the sum of its stored intents less the cancelled ones, every stored  *)
(* intent has its IntentQueued event and its owner's flag, an intent is    *)
(* claimed exactly when it has its Claimed or IntentCancelled event (so    *)
(* claimedOutSum holds its amountOut), and a window is cleared exactly     *)
(* when it has its WindowCleared event.                                    *)
(***************************************************************************)
TypedErrors ==
    { "RecipientZero", "AmountTooSmall", "WindowNotStarted", "AlreadyQueuedInWindow",
      "MaxIntentsReached", "UnknownWindow", "WindowAlreadyCleared", "WindowNotEnded",
      "WindowNotCleared", "InvalidIntentId", "UnauthorizedClaim", "IntentAlreadyClaimed",
      "MinOutNotMet", "CancelDelayNotElapsed",
      "IntentsNotTerminal", "DustAlreadySwept", "ClaimedOutExceedsTotalOut" }

RECURSIVE SumAmountIn(_)
SumAmountIn(is) == IF is = <<>> THEN 0 ELSE Head(is).amountIn + SumAmountIn(Tail(is))

NoPartialUpdate(w) ==
    /\ windows[w].totalIn =
           SumAmountIn(intents[w]) - SumAmounts(EventsOf(w, "IntentCancelled"))
    /\ Len(EventsOf(w, "IntentQueued")) = Len(intents[w])
    /\ \A u \in Users :
          hasQueuedIntent[w][u] <=> \E i \in 1 .. Len(intents[w]) : intents[w][i].user = u
    /\ \A i \in 1 .. Len(intents[w]) :
          /\ Terminations(w, i - 1) = (IF intents[w][i].claimed THEN 1 ELSE 0)
          /\ EventsOf(w, "IntentQueued")[i].amount = intents[w][i].amountIn
    /\ windows[w].cleared <=> Len(EventsOf(w, "WindowCleared")) = 1
    /\ ~windows[w].cleared => Len(EventsOf(w, "WindowCleared")) = 0 /\ windows[w].totalOut = 0
    /\ dustSwept[w] => windows[w].cleared

SameIntent(a, b) == [a EXCEPT !.claimed = FALSE] = [b EXCEPT !.claimed = FALSE]

C22_SubmitAppendsToCurrentWindow ==
    [][/\ (last'.op = "queueSwapExactIn" /\ Succeeds) =>
            LET w == getCurrentWindowId
                sender == last'.sender
                amountIn == last'.args[1]
            IN  /\ ~windowNotStarted /\ InWindow(blockNumber, w)
                /\ blockNumber' = blockNumber
                /\ intents'[w] =
                       Append(intents[w],
                              SwapIntent(sender, last'.args[3], amountIn, last'.args[2], w,
                                         cfg.zeroForOneDirection, FALSE))
                /\ windows'[w] = [windows[w] EXCEPT !.totalIn = @ + amountIn,
                                                    !.intentCount = @ + 1]
                /\ hasQueuedIntent' = [hasQueuedIntent EXCEPT ![w][sender] = TRUE]
                /\ last'.ret = <<w, Len(intents[w])>>
                /\ \A v \in WindowIds \ {w} : intents'[v] = intents[v] /\ windows'[v] = windows[v]
       /\ \A w \in WindowIds : \A i \in 1 .. Len(intents[w]) :
             /\ i <= Len(intents'[w])
             /\ SameIntent(intents'[w][i], intents[w][i])
             /\ intents[w][i].windowId = w]_vars

\* The second submit into a window returned index 1.
C22_Witness ==
    \E w \in WindowIds :
        /\ Len(intents[w]) = 2
        /\ last.op = "queueSwapExactIn" /\ last.err = <<>> /\ last.ret = <<w, 1>>

(***************************************************************************)
(* C23 as stated: whenever the current window's intentCount has reached    *)
(* maxIntentsPerWindow, a queueSwapExactIn fails with MaxIntentsReached    *)
(* and changes nothing; and intentCount <= maxIntentsPerWindow for every   *)
(* window in every state.                                                  *)
(***************************************************************************)
CurrentWindowFull ==
    /\ ~windowNotStarted
    /\ getCurrentWindowId \in WindowIds
    /\ windows[getCurrentWindowId].intentCount >= cfg.maxIntentsPerWindow

C23_SubmitToFullWindowFailsWithWindowFull ==
    [][/\ (last'.op = "queueSwapExactIn" /\ CurrentWindowFull)
             => FailsWith(<<"MaxIntentsReached">>)
       /\ \A w \in WindowIds : windows'[w].intentCount <= cfg.maxIntentsPerWindow]_vars

(***************************************************************************)
(* C23, amended: whenever the current window's intentCount has reached     *)
(* maxIntentsPerWindow, a queueSwapExactIn fails and changes nothing: with *)
(* RecipientZero on a zero recipient, else with AmountTooSmall on an       *)
(* amount below the minimum, else with AlreadyQueuedInWindow when the      *)
(* caller has an intent in the window, and with MaxIntentsReached          *)
(* otherwise; and intentCount <= maxIntentsPerWindow for every window in   *)
(* every state.                                                            *)
(***************************************************************************)
C23_SubmitToFullWindowFails ==
    [][/\ (last'.op = "queueSwapExactIn" /\ CurrentWindowFull) =>
            LET sender == last'.sender
                amountIn == last'.args[1]
                recipient == last'.args[3]
            IN  FailsWith(IF recipient = ZeroAddress THEN <<"RecipientZero">>
                          ELSE IF amountIn < cfg.minAmountIn THEN <<"AmountTooSmall">>
                          ELSE IF hasQueuedIntent[getCurrentWindowId][sender]
                               THEN <<"AlreadyQueuedInWindow">>
                          ELSE <<"MaxIntentsReached">>)
       /\ \A w \in WindowIds : windows'[w].intentCount <= cfg.maxIntentsPerWindow]_vars

\* A well-formed submit by an owner without an intent in the full current
\* window was refused.
C23_Witness ==
    /\ CurrentWindowFull
    /\ last.op = "queueSwapExactIn" /\ last.err = <<"MaxIntentsReached">>
    /\ ~hasQueuedIntent[getCurrentWindowId][last.sender]

C25_CancelKeepsIntentCount ==
    [][\A w \in WindowIds :
          (last'.op = "cancelUncleared" /\ last'.args[1] = w /\ Succeeds) =>
              /\ windows'[w].intentCount = windows[w].intentCount
              /\ terminalIntentCount(w)' = terminalIntentCount(w) + 1
              /\ Len(intents[w]) = 1 =>
                     windows'[w].intentCount = 1 /\ terminalIntentCount(w)' = 1]_vars

(***************************************************************************)
(* C26 as stated: a successful claim sets the intent's claimed flag, adds  *)
(* the returned amountOut to the window's claimedOutSum and one to its     *)
(* terminalIntentCount, credits amountOut to the intent's recipient, emits *)
(* one Claimed event, and leaves totalIn, totalOut, intentCount and every  *)
(* other intent as they were.                                              *)
(***************************************************************************)
\* The output tokens the hook has moved to `account`.  No function of the hook
\* moves a token: the payout of claim is a comment that asks for it.
credited(account) == 0

ClaimLedgerEffect(w, i) ==
    LET amountOut == last'.ret[1] IN
    /\ i < Len(intents[w])
    /\ ~intents[w][i + 1].claimed
    /\ intents' = [intents EXCEPT ![w][i + 1].claimed = TRUE]
    /\ claimedOutSum(w)' = claimedOutSum(w) + amountOut
    /\ terminalIntentCount(w)' = terminalIntentCount(w) + 1
    /\ events' = [events EXCEPT ![w] = Append(@, Claimed(w, i, last'.sender, amountOut))]
    /\ UNCHANGED <<windows, hasQueuedIntent, dustSwept, blockNumber>>

C26_ClaimEffect ==
    [][\A w \in WindowIds, i \in IntentIds :
          (last'.op = "claim" /\ last'.args = <<w, i>> /\ Succeeds) =>
              /\ ClaimLedgerEffect(w, i)
              /\ credited(intents[w][i + 1].recipient)' =
                     credited(intents[w][i + 1].recipient) + last'.ret[1]]_vars

(***************************************************************************)
(* C27: the intentCount of a window is 0 exactly when it stores no intent  *)
(* or every intent it stores was cancelled; clear on such a window fails   *)
(* with UnknownWindow at every block and changes nothing; a window with    *)
(* intentCount 0 is not cleared, and no claim succeeds in it.              *)
(***************************************************************************)
EveryIntentCancelled(w) ==
    \A i \in 1 .. Len(intents[w]) : Len(EventsOfIntent(w, "IntentCancelled", i - 1)) = 1

LiveIntentCount(w) == Len(intents[w]) - Len(EventsOf(w, "IntentCancelled"))

AllClaimed(w) == \A i \in 1 .. Len(intents[w]) : intents[w][i].claimed

SweepPaysDust(w) ==
    (last'.op = "sweepDust" /\ last'.args[1] = w /\ Succeeds) =>
        /\ last'.ret = <<windows[w].totalOut - claimedOutSum(w)>>
        /\ last'.ret[1] >= 0
        /\ dustSwept'[w]

DustBelowClaimers(w) ==
    (windows[w].cleared /\ AllClaimed(w)) =>
        /\ 0 <= getSweepableDust(windows[w].totalOut, claimedOutSum(w))
        /\ getSweepableDust(windows[w].totalOut, claimedOutSum(w)) < LiveIntentCount(w)

DustExamples ==
    /\ proRataOutFloor(100, 1, 3) = 33
    /\ getSweepableDust(100, 3 * proRataOutFloor(100, 1, 3)) = 1
    /\ proRataOutFloor(1000, 1000, 1000) = 1000
    /\ getSweepableDust(1000, proRataOutFloor(1000, 1000, 1000)) = 0

NoClaimAfterSweep(w) ==
    (dustSwept[w] /\ last'.op = "claim" /\ last'.args[1] = w) => ~Succeeds

C28_SweepPaysExactDust ==
    [][/\ DustExamples
       /\ last'.err # <<>> => last'.err[1] # "ClaimedOutExceedsTotalOut"
       /\ \A w \in WindowIds :
             SweepPaysDust(w) /\ DustBelowClaimers(w) /\ NoClaimAfterSweep(w)]_vars

(***************************************************************************)
(* C29: when the agent's read of a pending window, its send of clear or    *)
(* its wait for the receipt fails, the error is logged, the window stays   *)
(* pending, nothing else the agent holds changes, the loop over the tick's *)
(* windows goes on with the window after it, and after the last window the *)
(* agent sleeps until its next tick: the process does not end.  No window  *)
(* is passed over and left pending without the error being logged.        *)
(***************************************************************************)
Processing == agent.pc \in {"read", "write", "wait"}

\* The step leaves the window at the head of the tick's list behind.
PassesHead ==
    /\ Processing
    /\ agent'.pc # "off"
    /\ agent'.windowsToCheck # agent.windowsToCheck

C29_FailedWindowStaysPending ==
    [][/\ (PassesHead /\ agent'.log = "clear-error") =>
            /\ Head(agent.windowsToCheck) \in agent'.pendingWindows
            /\ agent'.pendingWindows = agent.pendingWindows
            /\ agent'.windowsToCheck = Tail(agent.windowsToCheck)
            /\ agent'.pc = (IF Tail(agent.windowsToCheck) = <<>> THEN "sleep" ELSE "read")
            /\ agent'.mempool = agent.mempool
            /\ UNCHANGED <<ledger, blockNumber>>
       /\ (PassesHead /\ Head(agent.windowsToCheck) \in agent'.pendingWindows) =>
            agent'.log = "clear-error"]_vars

\* With two windows to check in the tick, the first one failed while its window
\* is still to be cleared; it is still pending and the second is being read.
C29_Witness ==
    /\ agent.log = "clear-error"
    /\ agent.pc = "read"
    /\ agent.windowsToCheck = <<1>>
    /\ 0 \in agent.pendingWindows
    /\ Attemptable(0)

(***************************************************************************)
(* C30: a tick examines the pending windows below the current window id,   *)
(* oldest first, at most EXECUTOR_MAX_WINDOWS_PER_TICK of them, one after  *)
(* the other; a window leaves the pending set either at its read, when the *)
(* ledger reports it cleared or without intents, and then no clear is      *)
(* sent, or at the receipt of the clear transaction that was sent for it,  *)
(* after the chain has executed that transaction; clear is sent only for   *)
(* the window under examination, which stays pending while it is sent.     *)
(***************************************************************************)
Range(seq) == {seq[i] : i \in 1 .. Len(seq)}

TickPicksOldest ==
    (agent.pc = "sleep" /\ agent'.pc = "read") =>
        LET current == getWindowIdFromBlock(blockNumber, cfg.startBlock, cfg.blocksPerWindow)
            eligible == {w \in agent'.pendingWindows : w < current}
            picked == agent'.windowsToCheck
            max == agent.config.EXECUTOR_MAX_WINDOWS_PER_TICK
        IN  /\ current # null /\ agent'.currentWindowId = current
            /\ Range(picked) \subseteq eligible
            /\ \A i, j \in 1 .. Len(picked) : i < j => picked[i] < picked[j]
            /\ Len(picked) = (IF Cardinality(eligible) < max THEN Cardinality(eligible) ELSE max)
            /\ \A w \in eligible \ Range(picked) : \A v \in Range(picked) : v < w

ExaminesHeadOnly ==
    (Processing /\ agent'.pc # "off") =>
        /\ agent'.windowsToCheck \in {agent.windowsToCheck, Tail(agent.windowsToCheck)}
        /\ agent.pendingWindows \ agent'.pendingWindows \subseteq {Head(agent.windowsToCheck)}
        /\ agent'.mempool \ agent.mempool \subseteq {Head(agent.windowsToCheck)}
        /\ Head(agent.windowsToCheck) < agent.currentWindowId

RemovesOnSkipOrReceipt ==
    \A w \in agent.pendingWindows \ agent'.pendingWindows :
        agent'.pc # "off" =>
            /\ Processing /\ w = Head(agent.windowsToCheck)
            /\ \/ /\ agent.pc = "read"
                  /\ windows[w].cleared \/ windows[w].intentCount = 0
                  /\ agent'.log = "clear-skip"
                  /\ agent'.mempool = agent.mempool
                  /\ UNCHANGED <<ledger, last>>
               \/ /\ agent.pc = "wait"
                  /\ agent.log = "clear-sent"
                  /\ w \notin agent.mempool
                  /\ agent'.log = "clear-mined"

SendsClearAfterRead ==
    /\ (agent.pc = "read" /\ agent'.pc = "write") =>
           LET w == Head(agent.windowsToCheck) IN
           ~windows[w].cleared /\ windows[w].intentCount > 0 /\ agent' = [agent EXCEPT !.pc = "write"]
    /\ agent'.log = "clear-sent" /\ agent.log # "clear-sent" =>
           /\ agent.pc = "write" /\ agent'.pc = "wait"
           /\ Head(agent.windowsToCheck) \in agent'.mempool
           /\ agent'.pendingWindows = agent.pendingWindows
    /\ agent'.mempool \ agent.mempool # {} => agent.pc = "write"

C30_TickExaminesOldestFirst ==
    [][TickPicksOldest /\ ExaminesHeadOnly /\ RemovesOnSkipOrReceipt /\ SendsClearAfterRead]_vars

\* With a maximum of one window per tick and two ended windows pending, the
\* older one was cleared by the agent and removed; the newer one waits for the
\* next tick.
C30_Witness ==
    /\ agent.config.EXECUTOR_MAX_WINDOWS_PER_TICK = 1
    /\ agent.log = "clear-mined"
    /\ agent.pc = "sleep"
    /\ agent.pendingWindows = {1}
    /\ agent.currentWindowId = 2
    /\ windows[0].cleared /\ Attemptable(1)

(***************************************************************************)
(* C31: the agent invokes clear again only after a transient error of the  *)
(* transport: once hook.write.clear was rejected with an error of the      *)
(* ledger (WindowAlreadyCleared because another caller cleared first,      *)
(* UnknownWindow, WindowNotEnded), withBackoff does not invoke it again.   *)
(***************************************************************************)
InvokesFn == backoff.pc = "call" /\ backoff'.calls = backoff.calls + 1

InvokesClear == InvokesFn /\ backoff.label = "write.clear"

C31_ClearRetriedOnlyAfterTransientError ==
    [][(InvokesClear /\ backoff.error # <<>>) => backoff.error \in TransientErrors]_vars

(***************************************************************************)
(* C32: withBackoff terminates: every step of a running call lowers a      *)
(* measure that is never negative.  It invokes fn at most                  *)
(* EXECUTOR_MAX_RETRIES + 1 times, once when EXECUTOR_MAX_RETRIES is 0; it *)
(* returns on the first invocation that succeeds and invokes nothing after *)
(* it; it throws only when the last allowed invocation failed, and what it *)
(* throws is the error of that invocation.                                 *)
(***************************************************************************)
BackoffMeasure(b) ==
    IF b.pc \notin {"call", "sleep"} THEN 0
    ELSE 2 * (b.config.EXECUTOR_MAX_RETRIES + 1 - b.calls) + (IF b.pc = "sleep" THEN 1 ELSE 0)

\* The errors the invocation made in this step can fail with.
ErrorsOfThisAttempt ==
    TransientErrors \cup
    (IF backoff.label = "write.clear" THEN {clearError(backoff.windowId)} \ {<<>>} ELSE {})

C32_WithBackoffTerminates ==
    [][/\ (backoff.pc \in {"call", "sleep"} /\ backoff' # backoff) =>
            /\ BackoffMeasure(backoff') < BackoffMeasure(backoff)
            /\ BackoffMeasure(backoff') >= 0
            /\ backoff'.calls <= backoff.config.EXECUTOR_MAX_RETRIES + 1
            /\ backoff'.config = backoff.config
            /\ backoff'.pc = "returned" =>
                   /\ InvokesFn
                   /\ backoff'.error = backoff.error /\ backoff'.thrown = <<>>
                   /\ backoff'.result # <<>>
            /\ backoff'.pc = "thrown" =>
                   /\ InvokesFn
                   /\ backoff'.calls = backoff.config.EXECUTOR_MAX_RETRIES + 1
                   /\ backoff'.thrown = backoff'.error
                   /\ backoff'.thrown \in ErrorsOfThisAttempt
                   /\ backoff'.result = <<>>
            /\ (InvokesClear /\ windows' # windows) => backoff'.pc = "returned"
            /\ (InvokesFn /\ backoff.config.EXECUTOR_MAX_RETRIES = 0) =>
                   backoff'.pc \in {"returned", "thrown"} /\ backoff'.calls = 1
       /\ (backoff.pc \in {"returned", "thrown"} /\ backoff' # backoff) =>
            backoff' = BackoffIdle]_vars

\* With three retries allowed, the clear of a window that another caller
\* cleared first was invoked four times, with three sleeps between, and
\* withBackoff threw the ledger's error.
C32_Witness ==
    /\ backoff.pc = "thrown"
    /\ backoff.label = "write.clear"
    /\ backoff.config.EXECUTOR_MAX_RETRIES = 3
    /\ backoff.calls = 4 /\ Len(backoff.slept) = 3
    /\ backoff.thrown = <<"WindowAlreadyCleared">>
    /\ windows[backoff.windowId].cleared

(***************************************************************************)
(* C33: the delays that withBackoff sleeps are the base delay first and    *)
(* then twice the delay before, up to the maximum delay; no delay is       *)
(* longer than the maximum delay, whatever the configured positive base    *)
(* and maximum are.                                                        *)
(***************************************************************************)
DelaysDouble ==
    \A i \in 1 .. Len(backoff.slept) :
        backoff.slept[i] =
            IF i = 1 THEN backoff.config.EXECUTOR_BACKOFF_BASE_MS
            ELSE min(2 * backoff.slept[i - 1], backoff.config.EXECUTOR_BACKOFF_MAX_MS)

C33_DelaysDoubleUpToMaximum ==
    /\ DelaysDouble
    /\ \A i \in 1 .. Len(backoff.slept) :
          backoff.slept[i] <= backoff.config.EXECUTOR_BACKOFF_MAX_MS

(***************************************************************************)
(* C34: on a stop signal the agent drops its IntentQueued subscription and *)
(* exits, but not in the middle of an operation: while a clear is being    *)
(* sent, or was sent and its receipt is awaited, the agent does not exit   *)
(* before that operation has finished or failed.                           *)
(***************************************************************************)
AgentExits == agent.pc # "off" /\ agent'.pc = "off"

ClearInFlight == agent.pc \in {"write", "wait"}

C34_StopLetsInFlightClearFinish ==
    [][/\ AgentExits => ~ClearInFlight
       /\ (agent.pc = "off" /\ agent'.pc = "off") =>
             /\ agent'.delivered = agent.delivered
             /\ agent'.intentsSeenByWindow = agent.intentsSeenByWindow
             /\ agent'.pendingWindows = agent.pendingWindows]_vars

(***************************************************************************)
(* C35: in every reachable state and for every window, totalIn is the sum  *)
(* of amountIn over the stored intents that were not cancelled.  So in a   *)
(* cleared window the share of a remaining intent is computed against the  *)
(* reduced totalIn, and the exact shares totalOut * amountIn / totalIn of  *)
(* the remaining intents add up to totalOut.                               *)
(***************************************************************************)
Cancelled(w, i) == EventsOfIntent(w, "IntentCancelled", i) # <<>>

\* The stored intents of window w that were not cancelled, in order.
Remaining(w) ==
    LET ids == sortBigintAsc({i \in 0 .. Len(intents[w]) - 1 : ~Cancelled(w, i)})
    IN  [k \in 1 .. Len(ids) |-> intents[w][ids[k] + 1]]

C35_TotalInIsSumOfRemaining ==
    \A w \in WindowIds :
        /\ windows[w].totalIn = SumAmountIn(Remaining(w))
        /\ windows[w].cleared =>
              /\ windows[w].totalOut * SumAmountIn(Remaining(w))
                     = windows[w].totalOut * windows[w].totalIn
              /\ \A k \in 1 .. Len(Remaining(w)) :
                    IsFloorOf(claimAmountOut(Remaining(w)[k], windows[w]),
                              windows[w].totalOut * Remaining(w)[k].amountIn,
                              SumAmountIn(Remaining(w)))

\* Window 0 took 100 and 300; the 300 was cancelled, the window was then
\* cleared with totalOut 50 against a totalIn of 100.
C35_Witness ==
    /\ Len(intents[0]) = 2
    /\ Cancelled(0, 1) /\ ~Cancelled(0, 0)
    /\ intents[0][1].amountIn = 100 /\ intents[0][2].amountIn = 300
    /\ windows[0].cleared /\ windows[0].totalIn = 100 /\ windows[0].totalOut = 50

(***************************************************************************)
(* C36: in every reachable state a cleared window has totalIn > 0, so the  *)
(* division by totalIn in claim is never a division by zero.  The minimum  *)
(* amount of a deployment is never zero (the constructor rejects it), and  *)
(* a cleared window has intentCount > 0 (clear rejects an empty window).   *)
(***************************************************************************)
C36_ClearedWindowHasPositiveTotalIn ==
    /\ cfg.minAmountIn > 0
    /\ \A args \in ConstructorArgs :
          args.minAmountIn = 0 => constructorError(args) # <<>>
    /\ \A w \in WindowIds :
          /\ \A i \in 1 .. Len(intents[w]) : intents[w][i].amountIn > 0
          /\ windows[w].cleared => windows[w].totalIn > 0 /\ windows[w].intentCount > 0

\* Of the two intents of window 0 one was cancelled before the window was
\* cleared and the other was claimed after: what is left is still positive.
C36_Witness ==
    /\ windows[0].cleared
    /\ Len(intents[0]) = 2 /\ windows[0].intentCount = 1
    /\ windows[0].totalIn = 100
    /\ EventsOf(0, "Claimed") # <<>>

(***************************************************************************)
(* C37: with a block number that never decreases, a submit never lands in  *)
(* a window that has ended and a cancel never succeeds in a window that is *)
(* still open.  So the number of intents stored for a window, and not only *)
(* its intentCount, never exceeds maxIntentsPerWindow, and from the end of *)
(* a window on its list of intents keeps its length and its entries.       *)
(***************************************************************************)
CancelSucceededIn(w) ==
    /\ last'.op = "cancelUncleared" /\ Succeeds /\ last'.args[1] = w
    /\ windows'[w] # windows[w]

C37_StoredIntentsBoundedAndFrozen ==
    [][/\ blockNumber' >= blockNumber
       /\ \A w \in WindowIds :
            /\ Len(intents'[w]) # Len(intents[w]) =>
                   /\ blockNumber < WindowEnd(w)
                   /\ w = getCurrentWindowId
                   /\ windows[w].intentCount = Len(intents[w])
            /\ CancelSucceededIn(w) => blockNumber >= WindowEnd(w)
            /\ Len(intents'[w]) <= cfg.maxIntentsPerWindow
            /\ blockNumber >= WindowEnd(w) =>
                   /\ Len(intents'[w]) = Len(intents[w])
                   /\ \A i \in 1 .. Len(intents[w]) :
                         SameIntent(intents'[w][i], intents[w][i])]_vars

\* With at most one intent per window, window 0 holds its one intent, which
\* was cancelled after the window's end (intentCount is back to 0), and the
\* next submit went to window 1.
C37_Witness ==
    /\ cfg.maxIntentsPerWindow = 1
    /\ Len(intents[0]) = 1 /\ windows[0].intentCount = 0
    /\ Len(intents[1]) = 1
    /\ blockNumber >= WindowEnd(0)

(***************************************************************************)
(* C38: once a window is cleared, an unclaimed intent whose share          *)
(* floor(totalOut * amountIn / totalIn) is below its minOut stays that way *)
(* for ever: its share does not change, every later claim on it fails (its *)
(* owner's with the same MinOutNotMet(share, minOut), anybody else's as    *)
(* unauthorized), a cancel of it fails with WindowAlreadyCleared, its      *)
(* claimed flag stays false, and so the window never has all its intents   *)
(* terminal.                                                               *)
(***************************************************************************)
BelowMinOut(w, i) ==
    /\ windows[w].cleared
    /\ i < Len(intents[w])
    /\ ~intents[w][i + 1].claimed
    /\ Share(w, i) < intents[w][i + 1].minOut

AllTerminal(w) == \A k \in 1 .. Len(intents[w]) : intents[w][k].claimed

AgentRuns == agent.pc # "off" /\ agent'.pc # "off"

Removes(w) == AgentRuns /\ w \in agent.pendingWindows /\ w \notin agent'.pendingWindows

CallbackAdds(w) == AgentRuns /\ agent'.delivered[w] = agent.delivered[w] + 1

C39_RemovedWindowsAreSettled ==
    [][\A w \in WindowIds :
          /\ Removes(w) =>
                /\ windows'[w].cleared \/ windows'[w].intentCount = 0
                /\ ~Attemptable(w) /\ ~Attemptable(w)'
          /\ CallbackAdds(w) =>
                /\ agent'.pendingWindows = agent.pendingWindows \cup {w}
                /\ w \in agent.pendingWindows => agent'.pendingWindows = agent.pendingWindows
          /\ (AgentRuns /\ w \in agent.pendingWindows /\ Attemptable(w)') =>
                w \in agent'.pendingWindows]_vars

\* The agent sent its clear of window 0, another caller's clear went through
\* first, the agent's transaction reverted on the chain, the receipt came and
\* the agent removed the window, which is cleared.
C39_Witness ==
    /\ agent.log = "clear-mined"
    /\ 0 \notin agent.pendingWindows /\ 0 \notin agent.mempool
    /\ last.op = "clear" /\ last.sender = Executor /\ last.args = <<0>>
    /\ last.err = <<"WindowAlreadyCleared">>
    /\ windows[0].cleared

(***************************************************************************)
(* C40: the agent never invokes clear on a window that has not ended.  The *)
(* windows of a tick are strictly below the window of a block number that  *)
(* the agent has read, the block number does not decrease, so each of them *)
(* has ended, and no clear of the agent fails with WindowNotEnded, neither *)
(* when it is sent nor when the chain executes it.                         *)
(***************************************************************************)
C40_AgentClearsOnlyEndedWindows ==
    /\ agent.pc \in {"read", "write", "wait"} =>
          /\ agent.currentWindowId # null
          /\ agent.currentWindowId <=
                getWindowIdFromBlock(blockNumber, cfg.startBlock, cfg.blocksPerWindow)
          /\ \A w \in Range(agent.windowsToCheck) :
                w < agent.currentWindowId /\ blockNumber >= WindowEnd(w)
    /\ \A w \in agent.mempool : blockNumber >= WindowEnd(w)
    /\ (last.op = "clear" /\ last.sender = Executor /\ last.err # <<>>) =>
          last.err[1] # "WindowNotEnded"

\* In the first block after window 0 the agent has sent its clear of window
\* 0; window 1, which is open and already has an intent, is pending but was
\* not taken into the tick.
C40_Witness ==
    /\ agent.pc = "wait" /\ agent.windowsToCheck = <<0>> /\ 0 \in agent.mempool
    /\ agent.currentWindowId = 1
    /\ 1 \in agent.pendingWindows /\ windows[1].intentCount > 0
    /\ blockNumber = WindowEnd(0)

====
